---- MODULE Spec2Model ----
(***************************************************************************)
(* Verification model of the LLM edge agent: the two-tier response cache   *)
(* (CacheManager over L1Cache and L2Cache), the per-provider circuit       *)
(* breakers, the routing engine's retry loop and the chat-completions      *)
(* handler.  Each subsystem has its own specification over its own group   *)
(* of variables; the other groups stay at their initial value.             *)
(***************************************************************************)
EXTENDS Integers, Sequences, FiniteSets, Bags, TLC

VARIABLES
    \* ---- cache (src/src/cache/mod.rs, crates/llm-edge-cache) ----
    has_l2,      \* CacheManager.l2.is_some()
    l1,          \* L1Cache.cache: cache key -> response, or None
    l2,          \* Redis: prefixed key -> JSON text, or None
    spawned,     \* tokio::spawn'ed fire-and-forget tasks that have not run yet
    pc,          \* per client task: where it is suspended
    arg,         \* per client task: the request of the call in progress
    ret,         \* per client task: the last completed call and its result
    nops,        \* number of CacheManager calls started so far
    stored,      \* history: <<cache key, response>> pairs passed to store
    since,       \* history, per task: what happened to the key of its last store
    exp,         \* history, per task: snapshot taken when its lookup read L1,
                 \*   and whether its L2 query failed
    inv,         \* history, per key: an invalidate returned, nothing stored since
    metrics,     \* CacheManager.metrics, shared with L1Cache: the L1 counters
    \* ---- CircuitBreaker (crates/llm-edge-routing/src/circuit_breaker.rs) ----
    failure_count,      \* AtomicU64
    success_count,      \* AtomicU64
    threshold,          \* u64, set by new()
    timeout,            \* Duration, set by new(), in clock ticks
    last_failure_time,  \* Mutex<Option<Instant>>
    now,                \* the clock read by Instant::now() and elapsed()
    last_op,            \* history: the step taken last
    ho_succ,            \* history: consecutive successes recorded in HalfOpen
    last_ho_failure,    \* history: time of the last failure recorded in HalfOpen
    opened_at,          \* history: time at which the circuit last became Open
    succ_run,           \* history: record_success calls since the last
                        \*   record_failure, counted up to 3
    fail_run,           \* history: record_failure calls since the last
                        \*   record_success
    \* ---- RoutingEngine and LLMCircuitBreaker (src/src/routing) ----
    breakers,        \* circuit_breakers: provider id -> breaker state
    cb_config,       \* LLMCircuitBreakerConfig of the breakers
    health_metrics,  \* provider id -> ProviderHealth
    counter,         \* RoundRobinStrategy.counter
    strategy,        \* the engine's routing strategy
    max_retries,     \* retry_config.max_retries
    rpc,             \* per task: where it is in route / call
    in_route,        \* per task: the call was made by route
    selected,        \* per task: the provider of the current attempt
    attempt,         \* per task: route's local `attempt`
    call_result,     \* per task: what LLMCircuitBreaker::call returned
    route_result,    \* per task: what route returned
    ncalls,          \* calls and routes started so far
    invocations,     \* history, per task: provider invocations of its route / call
    failed,          \* history, per task: failed attempts of its route
    probe,           \* history, per task: its call was admitted in HalfOpen
    streak,          \* history, per provider: consecutive failed provider calls
    enabled,         \* provider id -> Provider.enabled
    retry_config,    \* retry_config: the backoff fields of RetryConfig
    sleeps,          \* history, per task: the backoffs its route has slept
    rr_window,       \* history: the latest round-robin selections
    \* ---- handle_chat_completions (crates/llm-edge-agent/src/proxy.rs) ----
    openai_provider,     \* AppState: Option, TRUE when configured
    anthropic_provider,  \* AppState: Option, TRUE when configured
    hpc,             \* per task: where its handler is
    hreq,            \* per task: the ChatCompletionRequest being handled
    hlookup,         \* per task: what the cache lookup of the request returned
    hprovider,       \* per task: provider_name chosen by select_provider
    hresp,           \* per task: what the handler returned
    store_tasks,     \* spawned cache_manager.store tasks that have not run
    nreqs,           \* requests handled so far
    sends,           \* history, per task: provider.send calls for its request
    store_spawns,    \* history, per task: store tasks spawned for its request
    hafter           \* history, per task: the provider's answer to an identical
                     \*   request that had been returned when its request arrived

cbVars == <<failure_count, success_count, threshold, timeout, last_failure_time,
            now, last_op, ho_succ, last_ho_failure, opened_at,
            succ_run, fail_run>>

routeVars == <<breakers, cb_config, health_metrics, counter, strategy, max_retries,
               rpc, in_route, selected, attempt, call_result, route_result,
               ncalls, invocations, failed, probe, streak, enabled,
               retry_config, sleeps, rr_window>>

pipeVars == <<openai_provider, anthropic_provider, hpc, hreq, hlookup, hprovider,
              hresp, store_tasks, nreqs, sends, store_spawns, hafter>>

cacheVars == <<has_l2, l1, l2, spawned, pc, arg, ret, nops, stored, since, exp, inv,
               metrics>>

None == "None"          \* Option::None of a response
Absent == -1            \* Option::None of a number
NoKey == <<>>           \* no cache key
NoJson == <<>>          \* Redis holds nothing under the key

(***************************************************************************)
(* Bounds of the model.                                                    *)
(***************************************************************************)
MaxOps == 3          \* CacheManager calls per behaviour
MaxSpawned == 2      \* fire-and-forget tasks pending at one time
MaxThreshold == 3    \* largest failure threshold a breaker is built with
MaxTimeout == 2      \* largest open timeout, in clock ticks
MaxTime == 6         \* the clock stops here
MaxFailures == 5     \* cap of a breaker's failure counter
MaxCalls == 5        \* calls of LLMCircuitBreaker::call started
MaxRoutes == 3       \* calls of RoutingEngine::route started
MaxRouteTime == 3    \* the clock stops here while requests are routed
MaxFairTime == 1     \* the clock stops here in the fair runs of route
MaxRetries == 2      \* largest retry_config.max_retries
MaxAttempts == 4     \* max_retries of an engine that retries with backoff
MaxRequests == 2     \* calls of handle_chat_completions started

(***************************************************************************)
(* Cache key: crates/llm-edge-cache/src/key.rs                             *)
(* Strings are sequences of one-character strings.  A temperature is an    *)
(* integer number of thousandths (700 is 0.7); max_tokens is a number.     *)
(***************************************************************************)
Digit(d) == <<"0", "1", "2", "3", "4", "5", "6", "7", "8", "9">>[d + 1]

\* format!("{:.2}", temp): rounded to two decimals, always two fraction digits
Fmt2(t) ==
    LET h == (t + 5) \div 10
    IN  <<Digit(h \div 100), ".", Digit((h \div 10) % 10), Digit(h % 10)>>

\* u32::to_string
RECURSIVE Dec(_)
Dec(n) == IF n < 10 THEN <<Digit(n)>> ELSE Dec(n \div 10) \o <<Digit(n % 10)>>

\* raw byte order of the characters used in parameter names
CharOrd(c) == CASE c = "a" -> 97 [] c = "b" -> 98 [] c = "c" -> 99 [] OTHER -> 0

\* request.parameters, a HashMap<String, Value>, is the sequence of its
\* <<name, JSON text>> entries in the order in which the map iterates, which
\* depends on the insertions that built it.
\* request.parameters.keys().collect()
param_keys(params) == [i \in 1..Len(params) |-> params[i][1]]

\* request.parameters.get(key)
params_get(params, key) ==
    params[CHOOSE i \in 1..Len(params) : params[i][1] = key][2]

\* Where sort puts a name among names that are in ascending order
RECURSIVE InsertKey(_, _)
InsertKey(k, sorted) ==
    IF sorted = <<>> THEN <<k>>
    ELSE IF CharOrd(k[1]) <= CharOrd(Head(sorted)[1]) THEN <<k>> \o sorted
    ELSE <<Head(sorted)>> \o InsertKey(k, Tail(sorted))

\* param_keys.sort(): the parameter names in ascending order
RECURSIVE SortedKeys(_)
UnsortedKeys(ks) == ks
SortedKeys(ks) ==
    IF ks = <<>> THEN <<>>
    ELSE InsertKey(Head(ks), SortedKeys(Tail(ks)))

RECURSIVE EncodeParams(_, _)
EncodeParams(keys, params) ==
    IF keys = <<>> THEN <<>>
    ELSE Head(keys) \o <<"=">> \o params_get(params, Head(keys)) \o <<";">>
         \o EncodeParams(Tail(keys), params)

\* The byte string fed to SHA-256.  The digest is taken to be collision free,
\* so the key is represented by the digest's input.
generate_cache_key(request) ==
    request.model \o <<"|">>
    \o request.prompt \o <<"|">>
    \o (IF request.temperature = Absent THEN <<>> ELSE Fmt2(request.temperature))
    \o <<"|">>
    \o (IF request.max_tokens = Absent THEN <<>> ELSE Dec(request.max_tokens))
    \o <<"|">>
    \o EncodeParams(SortedKeys(param_keys(request.parameters)), request.parameters)

CacheableRequest(m, p, t, mt) ==
    [model |-> m, prompt |-> p, temperature |-> t, max_tokens |-> mt,
     parameters |-> <<>>]

\* Requests of the cache model: two that differ only in the third decimal of
\* the temperature, and one with another prompt.
Reqs == { CacheableRequest(<<"m">>, <<"p">>, 700, 16),
          CacheableRequest(<<"m">>, <<"p">>, 701, 16),
          CacheableRequest(<<"m">>, <<"q">>, Absent, Absent) }

\* no request (of a call that takes none, or of no call at all)
NoReq == CacheableRequest(<<>>, <<>>, Absent, Absent)

(***************************************************************************)
(* Requests of the proxy: crates/llm-edge-agent/src/proxy.rs               *)
(***************************************************************************)
ChatCompletionRequest(m, msgs, t, mt, st) ==
    [model |-> m, messages |-> msgs, temperature |-> t, max_tokens |-> mt,
     stream |-> st]

ChatMessage(r, c) == [role |-> r, content |-> c]

ChatReqs ==
    { ChatCompletionRequest(<<"G", "p", "t">>, <<ChatMessage(<<"u">>, <<"p">>)>>, 700, 16, FALSE),
      ChatCompletionRequest(<<"x">>, <<ChatMessage(<<"s">>, <<"a">>), ChatMessage(<<"u">>, <<"q">>)>>,
                            Absent, Absent, FALSE),
      ChatCompletionRequest(<<"g", "p", "t">>, <<ChatMessage(<<"u">>, <<"p">>)>>, 700, 16, TRUE),
      ChatCompletionRequest(<<>>, <<ChatMessage(<<"u">>, <<"p">>)>>, 700, 16, FALSE),
      ChatCompletionRequest(<<"x">>, <<>>, Absent, Absent, FALSE) }

NoChatReq == ChatCompletionRequest(<<>>, <<>>, Absent, Absent, FALSE)

\* validate_request
validate_request_lax(request) ==
    IF request.model = <<>> THEN "Model is required"
    ELSE IF request.messages = <<>> THEN "Messages cannot be empty"
    ELSE "Ok"
validate_request(request) ==
    IF request.model = <<>> THEN "Model is required"
    ELSE IF request.messages = <<>> THEN "Messages cannot be empty"
    ELSE IF request.stream THEN "Streaming is not yet supported"
    ELSE "Ok"

\* messages.iter().map(|m| format!("{}: {}", m.role, m.content)).join("\n")
RECURSIVE JoinMessages(_)
JoinMessages(msgs) ==
    IF msgs = <<>> THEN <<>>
    ELSE Head(msgs).role \o <<":", " ">> \o Head(msgs).content
         \o (IF Len(msgs) > 1 THEN <<"\n">> ELSE <<>>)
         \o JoinMessages(Tail(msgs))

\* convert_to_cacheable
convert_to_cacheable(request) ==
    CacheableRequest(request.model, JoinMessages(request.messages),
                     request.temperature, request.max_tokens)

Keys ==
    { generate_cache_key(q) : q \in Reqs }
        \cup { generate_cache_key(convert_to_cacheable(c)) : c \in ChatReqs }

\* CachedResponse values (content)
Resps == {"r1", "r2"}

Tasks == {"t1", "t2"}

(***************************************************************************)
(* L2 encoding: crates/llm-edge-cache/src/l2.rs                            *)
(***************************************************************************)
\* format!("{}{}", self.config.key_prefix, key)
prefixed_key_no_key(key) == <<"llm_cache:">>
prefixed_key(key) == <<"llm_cache:">> \o key

\* serde_json::to_string(&value) and serde_json::from_str(&json)
to_json(value) == <<"{", value, "}">>
from_json(json) == json[2]

RedisKeys == { prefixed_key(k) : k \in Keys }

\* The fire-and-forget tasks: the L1 promotion spawned by lookup and the L2
\* write spawned by store.
BgTasks == [kind : {"promote", "l2set"}, key : Keys, value : Resps]

NSpawned == BagCardinality(spawned)

Spawn(task) == spawned (+) SetToBag({task})
Unspawn(task) == spawned (-) SetToBag({task})

Result(op, req, res, val) == [op |-> op, req |-> req, res |-> res, val |-> val]
NoResult == Result("none", NoReq, "-", None)
NoSince == [req |-> NoReq, value |-> None, removed |-> FALSE, overwritten |-> FALSE,
            l2hit |-> FALSE, promoted |-> FALSE]
NoExp == [after_store |-> FALSE, value |-> None, removed |-> FALSE,
          overwritten |-> FALSE, after_inv |-> FALSE, l2_failed |-> FALSE,
          after_l2hit |-> FALSE, promoted |-> FALSE]

\* history: an L1 entry of `key` was removed / written by someone else
SinceKey(s) == IF s.req = NoReq THEN NoKey ELSE generate_cache_key(s.req)
MarkRemoved(S, keys) ==
    [t \in Tasks |-> IF SinceKey(S[t]) \in keys
                     THEN [S[t] EXCEPT !.removed = TRUE] ELSE S[t]]
MarkOverwritten(S, key) ==
    [t \in Tasks |-> IF SinceKey(S[t]) = key
                     THEN [S[t] EXCEPT !.overwritten = TRUE] ELSE S[t]]

\* CacheMetrics::new: the counters of the L1 tier
NewMetrics == [l1_hits |-> 0, l1_misses |-> 0, l1_writes |-> 0]

\* CacheMetrics::record_operation(CacheTier::L1, operation): fetch_add(1)
record_operation(operation) == [metrics EXCEPT ![operation] = @ + 1]

\* L1Cache::get: the operation recorded for the result of cache.get(key)
GetOperationAlwaysHit(result) == "l1_hits"
GetOperation(result) == IF result # None THEN "l1_hits" ELSE "l1_misses"

CacheInit ==
    /\ has_l2 \in BOOLEAN
    /\ l1 = [k \in Keys |-> None]
    /\ l2 = [k \in RedisKeys |-> NoJson]
    /\ spawned = EmptyBag
    /\ pc = [t \in Tasks |-> "idle"]
    /\ arg = [t \in Tasks |-> NoReq]
    /\ ret = [t \in Tasks |-> NoResult]
    /\ nops = 0
    /\ stored = {}
    /\ since = [t \in Tasks |-> NoSince]
    /\ exp = [t \in Tasks |-> NoExp]
    /\ inv = [k \in Keys |-> "none"]
    /\ metrics = NewMetrics

(***************************************************************************)
(* CacheManager::lookup, src/src/cache/mod.rs:109-145                      *)
(***************************************************************************)
\* The snapshot a lookup takes of the history when it reads L1.
Snapshot(t, request) ==
    [after_store |-> ret[t].op = "store" /\ ret[t].req = request,
     value       |-> since[t].value,
     removed     |-> since[t].removed,
     overwritten |-> since[t].overwritten,
     after_inv   |-> inv[generate_cache_key(request)] = "done",
     l2_failed   |-> FALSE,
     after_l2hit |-> ret[t].op = "lookup" /\ ret[t].res = "L2Hit" /\ ret[t].req = request,
     promoted    |-> since[t].promoted]

\* if let Some(ref l2) = self.l2
QueriesL2Always == TRUE
QueriesL2 == has_l2

\* self.l1.get(&cache_key): a hit returns at once; a miss returns Miss when no
\* L2 is configured and otherwise goes on to the L2 query.
LookupL1(t, request) ==
    LET cache_key == generate_cache_key(request) IN
    /\ pc[t] = "idle"
    /\ nops < MaxOps
    /\ nops' = nops + 1
    /\ exp' = [exp EXCEPT ![t] = Snapshot(t, request)]
    /\ inv' = [inv EXCEPT ![cache_key] = IF @ = "done" THEN "none" ELSE @]
    /\ IF l1[cache_key] # None
       THEN /\ ret' = [ret EXCEPT ![t] = Result("lookup", request, "L1Hit", l1[cache_key])]
            /\ UNCHANGED <<pc, arg>>
       ELSE IF ~QueriesL2
       THEN /\ ret' = [ret EXCEPT ![t] = Result("lookup", request, "Miss", None)]
            /\ UNCHANGED <<pc, arg>>
       ELSE /\ pc' = [pc EXCEPT ![t] = "lookup_l2"]
            /\ arg' = [arg EXCEPT ![t] = request]
            /\ ret' = [ret EXCEPT ![t] = NoResult]
    /\ metrics' = record_operation(GetOperation(l1[cache_key]))
    /\ UNCHANGED <<has_l2, l1, l2, spawned, stored, since>>

\* What lookup returns on Ok(Some(response)) of the L2 query
L2HitResult(request, response) == Result("lookup", request, "L2Hit", response)

\* What lookup returns on Ok(None) and on Err(e) of the L2 query: both arms
\* only log and fall through to CacheLookupResult::Miss
L2ErrorResult(request) == Result("lookup", request, "Error", None)
L2MissResult(request) == Result("lookup", request, "Miss", None)

\* l2.get(&cache_key).await: Ok(Some) spawns the L1 promotion and returns L2Hit;
\* Ok(None) and Err (Redis error, timeout, undecodable JSON) return Miss.
LookupL2(t) ==
    LET cache_key == generate_cache_key(arg[t])
        json == l2[prefixed_key(cache_key)]
    IN
    /\ pc[t] = "lookup_l2"
    /\ \E ok \in BOOLEAN :
         /\ exp' = [exp EXCEPT ![t].l2_failed = ~ok]
         /\ IF ok /\ json # NoJson
            THEN LET response == from_json(json) IN
                 /\ NSpawned < MaxSpawned
                 /\ spawned' = Spawn([kind |-> "promote", key |-> cache_key, value |-> response])
                 /\ ret' = [ret EXCEPT ![t] = L2HitResult(arg[t], response)]
                 /\ since' = [since EXCEPT ![t] =
                        [req |-> arg[t], value |-> response, removed |-> FALSE,
                         overwritten |-> FALSE, l2hit |-> TRUE, promoted |-> FALSE]]
            ELSE /\ ret' = [ret EXCEPT ![t] = L2MissResult(arg[t])]
                 /\ UNCHANGED <<spawned, since>>
    /\ pc' = [pc EXCEPT ![t] = "idle"]
    /\ arg' = [arg EXCEPT ![t] = NoReq]
    /\ UNCHANGED <<has_l2, l1, l2, nops, stored, inv, metrics>>

\* history: the promotion b has written L1; for a task whose lookup was given
\* the promoted value by L2 its promotion has run, for the others an L1 entry
\* was written by someone else
MarkPromoted(S, b) ==
    [t \in Tasks |->
        IF SinceKey(S[t]) # b.key THEN S[t]
        ELSE IF S[t].l2hit /\ S[t].value = b.value
        THEN [S[t] EXCEPT !.promoted = TRUE, !.removed = FALSE, !.overwritten = FALSE]
        ELSE [S[t] EXCEPT !.overwritten = TRUE]]

\* What the promotion does to L1
PromoteL1Dropped(b) == l1
PromoteL1(b) == [l1 EXCEPT ![b.key] = b.value]

\* The spawned promotion: l1_clone.set(key_clone, response).await
RunPromote(b) ==
    /\ b.kind = "promote"
    /\ BagIn(b, spawned)
    /\ spawned' = Unspawn(b)
    /\ l1' = PromoteL1(b)
    /\ since' = MarkPromoted(since, b)
    /\ metrics' = record_operation("l1_writes")
    /\ UNCHANGED <<has_l2, l2, pc, arg, ret, nops, stored, exp, inv>>

(***************************************************************************)
(* CacheManager::store, src/src/cache/mod.rs:154-172                       *)
(***************************************************************************)
\* What store has done to L1 by the time it returns.
StoreL1Deferred(cache_key, response) == l1
StoreL1(cache_key, response) == [l1 EXCEPT ![cache_key] = response]

Store(t, request, response) ==
    LET cache_key == generate_cache_key(request) IN
    /\ pc[t] = "idle"
    /\ nops < MaxOps
    /\ nops' = nops + 1
    /\ l1' = StoreL1(cache_key, response)
    /\ IF has_l2
       THEN /\ NSpawned < MaxSpawned
            /\ spawned' = Spawn([kind |-> "l2set", key |-> cache_key, value |-> response])
       ELSE UNCHANGED spawned
    /\ ret' = [ret EXCEPT ![t] = Result("store", request, "-", response)]
    /\ stored' = stored \cup {<<cache_key, response>>}
    /\ since' = [MarkOverwritten(since, cache_key) EXCEPT
                    ![t] = [req |-> request, value |-> response,
                            removed |-> FALSE, overwritten |-> FALSE,
                            l2hit |-> FALSE, promoted |-> FALSE]]
    /\ inv' = [inv EXCEPT ![cache_key] = "none"]
    /\ metrics' = record_operation("l1_writes")
    /\ UNCHANGED <<has_l2, l2, pc, arg, exp>>

\* The spawned write-behind: l2_clone.set(key_clone, response_clone).await;
\* an error or a timeout is logged and the write is lost.
RunL2SetResult(b, ok) ==
    /\ b.kind = "l2set"
    /\ BagIn(b, spawned)
    /\ spawned' = Unspawn(b)
    /\ l2' = IF ok THEN [l2 EXCEPT ![prefixed_key(b.key)] = to_json(b.value)] ELSE l2
    /\ UNCHANGED <<has_l2, l1, pc, arg, ret, nops, stored, since, exp, inv, metrics>>

RunL2Set(b) == \E ok \in BOOLEAN : RunL2SetResult(b, ok)

(***************************************************************************)
(* CacheManager::invalidate, src/src/cache/mod.rs:204-216                  *)
(***************************************************************************)
\* self.l1.remove(&cache_key).await
InvalidateL1(t, request) ==
    LET cache_key == generate_cache_key(request) IN
    /\ pc[t] = "idle"
    /\ nops < MaxOps
    /\ nops' = nops + 1
    /\ l1' = [l1 EXCEPT ![cache_key] = None]
    /\ since' = MarkRemoved(since, {cache_key})
    /\ IF has_l2
       THEN /\ pc' = [pc EXCEPT ![t] = "invalidate_l2"]
            /\ arg' = [arg EXCEPT ![t] = request]
            /\ ret' = [ret EXCEPT ![t] = NoResult]
            /\ inv' = [inv EXCEPT ![cache_key] = "started"]
       ELSE /\ ret' = [ret EXCEPT ![t] = Result("invalidate", request, "-", None)]
            /\ inv' = [inv EXCEPT ![cache_key] = "done"]
            /\ UNCHANGED <<pc, arg>>
    /\ UNCHANGED <<has_l2, l2, spawned, stored, exp, metrics>>

\* l2.remove(&cache_key).await: an error is logged and the entry stays in Redis
InvalidateL2(t) ==
    LET cache_key == generate_cache_key(arg[t]) IN
    /\ pc[t] = "invalidate_l2"
    /\ \E ok \in BOOLEAN :
         /\ l2' = IF ok THEN [l2 EXCEPT ![prefixed_key(cache_key)] = NoJson] ELSE l2
         /\ inv' = [inv EXCEPT ![cache_key] =
                        IF @ = "started" /\ ok THEN "done" ELSE "none"]
    /\ ret' = [ret EXCEPT ![t] = Result("invalidate", arg[t], "-", None)]
    /\ pc' = [pc EXCEPT ![t] = "idle"]
    /\ arg' = [arg EXCEPT ![t] = NoReq]
    /\ UNCHANGED <<has_l2, l1, spawned, nops, stored, since, exp, metrics>>

(***************************************************************************)
(* CacheManager::clear_all, src/src/cache/mod.rs:219-229                   *)
(***************************************************************************)
ClearL1(t) ==
    /\ pc[t] = "idle"
    /\ nops < MaxOps
    /\ nops' = nops + 1
    /\ l1' = [k \in Keys |-> None]
    /\ since' = MarkRemoved(since, Keys)
    /\ IF has_l2
       THEN /\ pc' = [pc EXCEPT ![t] = "clear_l2"]
            /\ ret' = [ret EXCEPT ![t] = NoResult]
       ELSE /\ ret' = [ret EXCEPT ![t] = Result("clear", NoReq, "-", None)]
            /\ UNCHANGED pc
    /\ UNCHANGED <<has_l2, l2, spawned, arg, stored, exp, inv, metrics>>

\* l2.clear().await: KEYS prefix* then DEL; an error leaves Redis as it was
ClearL2(t) ==
    /\ pc[t] = "clear_l2"
    /\ \E ok \in BOOLEAN :
         l2' = IF ok THEN [k \in RedisKeys |-> NoJson] ELSE l2
    /\ ret' = [ret EXCEPT ![t] = Result("clear", NoReq, "-", None)]
    /\ pc' = [pc EXCEPT ![t] = "idle"]
    /\ UNCHANGED <<has_l2, l1, spawned, arg, nops, stored, since, exp, inv, metrics>>

(***************************************************************************)
(* Entries leaving a tier on their own: moka's TTL, TTI and capacity       *)
(* eviction (l1.rs:75-79), Redis SETEX expiry (l2.rs:205-206).             *)
(***************************************************************************)
L1Evict(k) ==
    /\ l1[k] # None
    /\ l1' = [l1 EXCEPT ![k] = None]
    /\ since' = MarkRemoved(since, {k})
    /\ UNCHANGED <<has_l2, l2, spawned, pc, arg, ret, nops, stored, exp, inv, metrics>>

L2Expire(rk) ==
    /\ l2[rk] # NoJson
    /\ l2' = [l2 EXCEPT ![rk] = NoJson]
    /\ UNCHANGED <<has_l2, l1, spawned, pc, arg, ret, nops, stored, since, exp, inv, metrics>>

\* A manager nobody uses: the cache variables in the other specifications.
CacheIdle == CacheInit /\ ~has_l2

(***************************************************************************)
(* CircuitBreaker, src/crates/llm-edge-routing/src/circuit_breaker.rs      *)
(* Each call of record_success and record_failure is one step here.       *)
(***************************************************************************)
\* CircuitBreaker::new
CBInit ==
    /\ failure_count = 0
    /\ success_count = 0
    /\ threshold \in 1..MaxThreshold
    /\ timeout \in 0..MaxTimeout
    /\ last_failure_time = Absent
    /\ now = 0
    /\ last_op = "new"
    /\ ho_succ = 0
    /\ last_ho_failure = Absent
    /\ opened_at = Absent
    /\ succ_run = 0
    /\ fail_run = 0

\* A breaker nobody uses: the breaker variables in the other specifications.
CBIdle == CBInit /\ threshold = 1 /\ timeout = 0

\* time.elapsed()
elapsed(time) == now - time

\* CircuitBreaker::state
state ==
    IF failure_count < threshold THEN "Closed"
    ELSE IF last_failure_time # Absent /\ elapsed(last_failure_time) > timeout
         THEN "HalfOpen"
         ELSE "Open"

\* The time at which the circuit last became Open.
OpenedAt == IF state' = "Open" /\ state # "Open" THEN now' ELSE opened_at

\* "Reset failures after 3 consecutive successes"
SuccessesToReset == 3
ResetDueAtTwo(successes) == successes >= 2
ResetDueAtFour(successes) == successes >= 4
ResetDue(successes) == successes >= SuccessesToReset

\* CircuitBreaker::record_success
record_success ==
    /\ IF ResetDue(success_count + 1)
       THEN failure_count' = 0 /\ success_count' = 0
       ELSE success_count' = success_count + 1 /\ UNCHANGED failure_count
    /\ last_op' = "success"
    /\ ho_succ' = IF state = "HalfOpen" THEN ho_succ + 1 ELSE 0
    /\ UNCHANGED <<threshold, timeout, last_failure_time, now, last_ho_failure>>
    /\ opened_at' = OpenedAt
    /\ succ_run' = IF succ_run < SuccessesToReset THEN succ_run + 1 ELSE succ_run
    /\ fail_run' = 0

\* What record_failure writes to last_failure_time: Some(Instant::now())
FailureTimeFirstOnly == IF last_failure_time = Absent THEN now ELSE last_failure_time
FailureTime == now

\* CircuitBreaker::record_failure
record_failure ==
    /\ failure_count < MaxFailures
    /\ failure_count' = failure_count + 1
    /\ success_count' = 0
    /\ last_failure_time' = FailureTime
    /\ last_op' = "failure"
    /\ ho_succ' = 0
    /\ last_ho_failure' = IF state = "HalfOpen" THEN now ELSE last_ho_failure
    /\ UNCHANGED <<threshold, timeout, now>>
    /\ opened_at' = OpenedAt
    /\ succ_run' = 0
    /\ fail_run' = fail_run + 1

\* Time passing between two calls.
Tick ==
    /\ now < MaxTime
    /\ now' = now + 1
    /\ last_op' = "tick"
    /\ UNCHANGED <<failure_count, success_count, threshold, timeout,
                   last_failure_time, ho_succ, last_ho_failure, succ_run, fail_run>>
    /\ opened_at' = OpenedAt

(***************************************************************************)
(* LLMCircuitBreaker, src/src/routing/circuit_breaker.rs: a wrapper of the *)
(* failsafe crate's breaker (consecutive-failures policy, fixed delay).    *)
(***************************************************************************)
ProviderIds == {"p1", "p2", "p3"}

\* CircuitBreaker::new(cb_config)
NewBreaker == [state |-> "Closed", failures |-> 0, until |-> 0]

\* The state the circuit is in once the clock is taken into account: the
\* breaker notes the end of the open period on the next call it is asked about.
EffState(b) ==
    IF b.state = "Open" /\ now > b.until THEN "HalfOpen" ELSE b.state

\* breaker.is_open()
is_open(b) == EffState(b) = "Open"

\* is_call_permitted, the first thing breaker.call does
permitted(b) == ~is_open(b)
after_permit(b) == [b EXCEPT !.state = EffState(b)]

\* breaker.call, the wrapped call returned Ok
on_success(b) ==
    [b EXCEPT !.state = IF @ = "HalfOpen" THEN "Closed" ELSE @,
              !.failures = 0]

\* breaker.call, the wrapped call returned Err
on_error_late(b) ==
    CASE b.state = "Closed" ->
            IF b.failures + 1 > cb_config.failure_threshold
            THEN [state |-> "Open", failures |-> b.failures + 1,
                  until |-> now + cb_config.timeout]
            ELSE [b EXCEPT !.failures = @ + 1]
      [] b.state = "HalfOpen" ->
            [b EXCEPT !.state = "Open", !.until = now + cb_config.timeout]
      [] OTHER -> b
on_error(b) ==
    CASE b.state = "Closed" ->
            IF b.failures + 1 >= cb_config.failure_threshold
            THEN [state |-> "Open", failures |-> b.failures + 1,
                  until |-> now + cb_config.timeout]
            ELSE [b EXCEPT !.failures = @ + 1]
      [] b.state = "HalfOpen" ->
            [b EXCEPT !.state = "Open", !.until = now + cb_config.timeout]
      [] OTHER -> b

\* Where a task goes when LLMCircuitBreaker::call has returned.
AfterCall(t) == IF in_route[t] THEN "record" ELSE "idle"

\* A caller invokes cb.call(f) on the breaker of provider p.
BreakerCall(t, p) ==
    /\ rpc[t] = "idle"
    /\ ncalls < MaxCalls
    /\ ncalls' = ncalls + 1
    /\ rpc' = [rpc EXCEPT ![t] = "call"]
    /\ in_route' = [in_route EXCEPT ![t] = FALSE]
    /\ selected' = [selected EXCEPT ![t] = p]
    /\ call_result' = [call_result EXCEPT ![t] = "none"]
    /\ invocations' = [invocations EXCEPT ![t] = 0]
    /\ probe' = [probe EXCEPT ![t] = FALSE]
    /\ UNCHANGED <<breakers, cb_config, health_metrics, counter, strategy,
                   max_retries, attempt, route_result, failed, streak, enabled,
                   retry_config, sleeps, rr_window>>

\* LLMCircuitBreaker::call, lines 95-103: if self.breaker.is_open() fail fast
CallCheck(t) ==
    /\ rpc[t] = "call"
    /\ IF is_open(breakers[selected[t]])
       THEN /\ call_result' = [call_result EXCEPT ![t] = "Open"]
            /\ rpc' = [rpc EXCEPT ![t] = AfterCall(t)]
       ELSE /\ rpc' = [rpc EXCEPT ![t] = "permit"]
            /\ UNCHANGED call_result
    /\ UNCHANGED <<breakers, cb_config, health_metrics, counter, strategy,
                   max_retries, in_route, selected, attempt, route_result,
                   ncalls, invocations, failed, probe, streak, enabled,
                   retry_config, sleeps, rr_window>>

\* self.breaker.call(f), lines 112 and 120-128: the breaker admits the call and
\* f starts, or it answers Rejected, which call maps to Open.
CallPermit(t) ==
    LET b == breakers[selected[t]] IN
    /\ rpc[t] = "permit"
    /\ IF permitted(b)
       THEN /\ breakers' = [breakers EXCEPT ![selected[t]] = after_permit(b)]
            /\ rpc' = [rpc EXCEPT ![t] = "inflight"]
            /\ invocations' = [invocations EXCEPT ![t] = @ + 1]
            /\ probe' = [probe EXCEPT ![t] = EffState(b) = "HalfOpen"]
            /\ UNCHANGED call_result
       ELSE /\ call_result' = [call_result EXCEPT ![t] = "Open"]
            /\ rpc' = [rpc EXCEPT ![t] = AfterCall(t)]
            /\ UNCHANGED <<breakers, invocations, probe>>
    /\ UNCHANGED <<cb_config, health_metrics, counter, strategy, max_retries,
                   in_route, selected, attempt, route_result, ncalls, failed,
                   streak, enabled, retry_config, sleeps, rr_window>>

\* The wrapped call returns, lines 112-137: Ok is passed on, Err(Inner) becomes
\* RequestFailed, and the breaker records the outcome.
CallReturn(t, ok) ==
    LET b == breakers[selected[t]] IN
    /\ rpc[t] = "inflight"
    /\ breakers' = [breakers EXCEPT ![selected[t]] =
                            IF ok THEN on_success(b) ELSE on_error(b)]
    /\ call_result' = [call_result EXCEPT ![t] =
                            IF ok THEN "Ok" ELSE "RequestFailed"]
    /\ streak' = [streak EXCEPT ![selected[t]] = IF ok THEN 0 ELSE @ + 1]
    /\ rpc' = [rpc EXCEPT ![t] = AfterCall(t)]
    /\ probe' = [probe EXCEPT ![t] = FALSE]
    /\ UNCHANGED <<cb_config, health_metrics, counter, strategy, max_retries,
                   in_route, selected, attempt, route_result, ncalls,
                   invocations, failed, enabled, retry_config, sleeps,
                   rr_window>>

CallEnd(t) == \E ok \in BOOLEAN : CallReturn(t, ok)

(***************************************************************************)
(* RoutingEngine, src/src/routing/mod.rs, and the strategies of            *)
(* src/src/routing/strategies.rs.  The clock ticks every 150 seconds.      *)
(***************************************************************************)
EngineFailureThreshold == 5   \* failure_threshold: 5
DefaultMaxRetries == 3        \* RetryConfig::default: max_retries: 3
EngineTimeout == 0            \* Duration::from_secs(30), in whole ticks
HealthyWindow == 2            \* Duration::from_secs(300), in ticks

\* The providers the engine is built with, in the order given to new().
\* cost_per_1k_tokens is in thousandths; Provider.enabled is the variable
\* `enabled`.  p2 and p3 have the same priority and the same cost.
providers ==
    << [id |-> "p1", priority |-> 2, cost_per_1k_tokens |-> 2],
       [id |-> "p2", priority |-> 1, cost_per_1k_tokens |-> 1],
       [id |-> "p3", priority |-> 1, cost_per_1k_tokens |-> 1] >>

\* start.elapsed().as_millis() of an attempt: the time the provider takes to
\* answer, in milliseconds
latency_of == [p \in ProviderIds |-> IF p = "p1" THEN 150 ELSE 100]

\* ProviderHealth::default
NewHealth ==
    [total_requests |-> 0, successful_requests |-> 0, failed_requests |-> 0,
     avg_latency_ms |-> 0, last_success |-> Absent, last_failure |-> Absent]

\* ProviderHealth::is_healthy; success_rate() >= 0.8 in whole numbers
is_healthy_inclusive(h) ==
    \/ h.total_requests = 0
    \/ 5 * h.successful_requests >= 4 * h.total_requests
    \/ h.last_success # Absent /\ elapsed(h.last_success) <= HealthyWindow
is_healthy(h) ==
    \/ h.total_requests = 0
    \/ 5 * h.successful_requests >= 4 * h.total_requests
    \/ h.last_success # Absent /\ elapsed(h.last_success) < HealthyWindow

\* RoutingEngine::select_provider builds providers_with_health:
\* is_healthy: health.is_healthy() && !cb.is_open()
providers_with_health ==
    [i \in 1..Len(providers) |->
        LET p == providers[i] IN
        [id |-> p.id, priority |-> p.priority,
         cost_per_1k_tokens |-> p.cost_per_1k_tokens,
         enabled |-> enabled[p.id],
         is_healthy |-> is_healthy(health_metrics[p.id]) /\ ~is_open(breakers[p.id]),
         avg_latency_ms |-> health_metrics[p.id].avg_latency_ms]]

\* The filter every strategy starts with: p.provider.enabled && p.is_healthy
FilterAll(list) == list
FilterHealthy(list) == SelectSeq(list, LAMBDA p : p.enabled /\ p.is_healthy)

\* The providers a selection of the engine chooses among
Healthy == FilterHealthy(providers_with_health)

\* sorted.sort_by_key(|p| p.provider.priority); sorted[0]: the sort is stable
RECURSIVE MinPriority(_)
MinPriorityLast(seq) ==
    seq[CHOOSE i \in 1..Len(seq) :
            \A j \in 1..Len(seq) :
                \/ seq[j].priority > seq[i].priority
                \/ seq[j].priority = seq[i].priority /\ j <= i]
MinPriority(seq) ==
    IF Len(seq) = 1 THEN seq[1]
    ELSE LET rest == MinPriority(Tail(seq)) IN
         IF seq[1].priority <= rest.priority THEN seq[1] ELSE rest

\* healthy.iter().min_by(|a, b| a.avg_latency_ms.partial_cmp(&b.avg_latency_ms))
RECURSIVE MinLatency(_)
MinLatency(seq) ==
    IF Len(seq) = 1 THEN seq[1]
    ELSE LET rest == MinLatency(Tail(seq)) IN
         IF seq[1].avg_latency_ms <= rest.avg_latency_ms THEN seq[1] ELSE rest

\* healthy.iter().min_by(|a, b| a.provider.cost_per_1k_tokens.partial_cmp(..))
RECURSIVE MinCost(_)
MinCost(seq) ==
    IF Len(seq) = 1 THEN seq[1]
    ELSE LET rest == MinCost(Tail(seq)) IN
         IF seq[1].cost_per_1k_tokens <= rest.cost_per_1k_tokens THEN seq[1] ELSE rest

\* RoundRobinStrategy: counter.fetch_add(1, Relaxed) % healthy.len()
RoundRobinIndexStuck(n) == 1
RoundRobinIndex(n) == (counter % n) + 1

\* RoutingStrategy::select_provider of the engine's strategy, on a non-empty list
StrategySelect(healthy) ==
    CASE strategy = "round-robin" -> healthy[RoundRobinIndex(Len(healthy))]
      [] strategy = "failover-chain" -> MinPriority(healthy)
      [] strategy = "least-latency" -> MinLatency(healthy)
      [] strategy = "cost-optimized" -> MinCost(healthy)

Strategies == {"round-robin", "failover-chain", "least-latency", "cost-optimized"}

\* RetryConfig::default, and the configuration of a short maximum backoff;
\* backoff_multiplier is in tenths (20 is 2.0)
DefaultRetry ==
    [initial_backoff_ms |-> 100, max_backoff_ms |-> 10000, backoff_multiplier |-> 20]
ShortRetry ==
    [initial_backoff_ms |-> 100, max_backoff_ms |-> 250, backoff_multiplier |-> 20]

RECURSIVE Pow(_, _)
Pow(base, e) == IF e = 0 THEN 1 ELSE base * Pow(base, e - 1)

\* RetryConfig::backoff_duration, in milliseconds:
\* min((initial as f64 * multiplier.powi(attempt)) as u64, max_backoff)
backoff_duration(at) ==
    LET ms == (retry_config.initial_backoff_ms * Pow(retry_config.backoff_multiplier, at))
                  \div Pow(10, at) IN
    IF ms < retry_config.max_backoff_ms THEN ms ELSE retry_config.max_backoff_ms

\* The per-task variables of a caller that has not called yet
CallersInit ==
    /\ rpc = [t \in Tasks |-> "idle"]
    /\ in_route = [t \in Tasks |-> FALSE]
    /\ selected = [t \in Tasks |-> "p1"]
    /\ attempt = [t \in Tasks |-> 0]
    /\ call_result = [t \in Tasks |-> "none"]
    /\ route_result = [t \in Tasks |-> "none"]
    /\ ncalls = 0
    /\ invocations = [t \in Tasks |-> 0]
    /\ failed = [t \in Tasks |-> 0]
    /\ probe = [t \in Tasks |-> FALSE]
    /\ sleeps = [t \in Tasks |-> <<>>]
    /\ rr_window = <<>>

\* RoutingEngine::new, the part every engine and breaker shares
RouteInit ==
    /\ CallersInit
    /\ breakers = [p \in ProviderIds |-> NewBreaker]
    /\ health_metrics = [p \in ProviderIds |-> NewHealth]
    /\ counter = 0
    /\ streak = [p \in ProviderIds |-> 0]

\* RoutingEngine::new with a strategy and a RetryConfig, on providers of which
\* the first two are enabled
EngineInit ==
    /\ RouteInit
    /\ cb_config = [failure_threshold |-> EngineFailureThreshold,
                    timeout |-> EngineTimeout]
    /\ strategy \in {"round-robin", "failover-chain"}
    /\ max_retries \in 0..MaxRetries
    /\ enabled = [p \in ProviderIds |-> p # "p3"]
    /\ retry_config = DefaultRetry

\* LLMCircuitBreaker::new(config), used on its own
BreakerInit ==
    /\ RouteInit
    /\ cb_config \in [failure_threshold : 1..MaxThreshold, timeout : 0..MaxTimeout]
    /\ strategy = "round-robin"
    /\ max_retries = 0
    /\ enabled = [p \in ProviderIds |-> p # "p3"]
    /\ retry_config = DefaultRetry

\* An engine nobody uses: the routing variables in the other specifications.
RouteIdle == BreakerInit /\ cb_config = [failure_threshold |-> 1, timeout |-> 0]

\* What an engine has recorded of a provider: nothing yet; one successful
\* request and then four failed ones.
Fresh == [health |-> NewHealth, breaker |-> NewBreaker, streak |-> 0]
Worn ==
    [health |-> [total_requests |-> 5, successful_requests |-> 1,
                 failed_requests |-> 4, avg_latency_ms |-> 0, last_success |-> 0,
                 last_failure |-> 0],
     breaker |-> [state |-> "Closed", failures |-> 4, until |-> 0], streak |-> 4]

\* The sets of enabled providers of the engines in service
EnabledSets == {{"p1"}, {"p2", "p3"}, ProviderIds}

\* An engine of any strategy, at start or after it has served requests, whose
\* RetryConfig has max_retries = MaxAttempts and the short maximum backoff.
ServingInit ==
    /\ CallersInit
    /\ cb_config = [failure_threshold |-> EngineFailureThreshold,
                    timeout |-> EngineTimeout]
    /\ strategy \in Strategies
    /\ max_retries = MaxAttempts
    /\ retry_config = ShortRetry
    /\ \E on \in EnabledSets : enabled = [p \in ProviderIds |-> p \in on]
    /\ \E past \in {Fresh, Worn} :
         /\ breakers = [p \in ProviderIds |->
                            IF enabled[p] THEN past.breaker ELSE NewBreaker]
         /\ health_metrics = [p \in ProviderIds |->
                            IF enabled[p] THEN past.health ELSE NewHealth]
         /\ streak = [p \in ProviderIds |-> IF enabled[p] THEN past.streak ELSE 0]
    /\ counter = 0

\* route is called: attempt = 0, and the loop is entered if 0 < max_retries
RouteStart(t) ==
    /\ rpc[t] = "idle"
    /\ ncalls < MaxRoutes
    /\ ncalls' = ncalls + 1
    /\ in_route' = [in_route EXCEPT ![t] = TRUE]
    /\ attempt' = [attempt EXCEPT ![t] = 0]
    /\ invocations' = [invocations EXCEPT ![t] = 0]
    /\ failed' = [failed EXCEPT ![t] = 0]
    /\ call_result' = [call_result EXCEPT ![t] = "none"]
    /\ probe' = [probe EXCEPT ![t] = FALSE]
    /\ sleeps' = [sleeps EXCEPT ![t] = <<>>]
    /\ IF 0 < max_retries
       THEN /\ rpc' = [rpc EXCEPT ![t] = "select"]
            /\ route_result' = [route_result EXCEPT ![t] = "none"]
       ELSE /\ route_result' = [route_result EXCEPT ![t] = "AllProvidersFailed"]
            /\ UNCHANGED rpc
    /\ UNCHANGED <<breakers, cb_config, health_metrics, counter, strategy,
                   max_retries, selected, streak, enabled, retry_config,
                   rr_window>>

\* The latest selections of the round-robin strategy, at most one per provider,
\* in the order of counter.fetch_add: the caller, the ids the strategy chose
\* among, and the one it returned.
Remember(t, healthy, id) ==
    LET w == Append(rr_window, [by |-> t,
                                among |-> [i \in 1..Len(healthy) |-> healthy[i].id],
                                id |-> id]) IN
    IF Len(w) > Len(providers) THEN Tail(w) ELSE w

\* self.select_provider().await?
SelectProvider(t) ==
    /\ rpc[t] = "select"
    /\ IF Len(Healthy) = 0
       THEN /\ route_result' = [route_result EXCEPT ![t] = "NoProvidersAvailable"]
            /\ rpc' = [rpc EXCEPT ![t] = "idle"]
            /\ UNCHANGED <<selected, counter, rr_window>>
       ELSE /\ selected' = [selected EXCEPT ![t] = StrategySelect(Healthy).id]
            /\ IF strategy = "round-robin"
               THEN /\ counter' = counter + 1
                    /\ rr_window' = Remember(t, Healthy, StrategySelect(Healthy).id)
               ELSE UNCHANGED <<counter, rr_window>>
            /\ rpc' = [rpc EXCEPT ![t] = "call"]
            /\ UNCHANGED route_result
    /\ UNCHANGED <<breakers, cb_config, health_metrics, strategy, max_retries,
                   in_route, attempt, call_result, ncalls, invocations, failed,
                   probe, streak, enabled, retry_config, sleeps>>

\* RoutingEngine::record_success with latency.as_millis(); the moving average
\* alpha * latency + (1 - alpha) * avg with alpha = 0.3, in whole milliseconds
ema_latency(avg_latency_ms, latency_ms) ==
    IF avg_latency_ms = 0 THEN latency_ms
    ELSE (3 * latency_ms + 7 * avg_latency_ms) \div 10

record_success_health(h, latency_ms) ==
    [h EXCEPT !.total_requests = @ + 1, !.successful_requests = @ + 1,
              !.last_success = now,
              !.avg_latency_ms = ema_latency(@, latency_ms)]

\* RoutingEngine::record_failure
record_failure_health(h) ==
    [h EXCEPT !.total_requests = @ + 1, !.failed_requests = @ + 1,
              !.last_failure = now]

\* RoutingEngine::record_failure(provider_id): the health record of that
\* provider, under the write lock of health_metrics
engine_record_failure_all(id) ==
    [q \in ProviderIds |-> record_failure_health(health_metrics[q])]
engine_record_failure(id) ==
    [health_metrics EXCEPT ![id] = record_failure_health(@)]

\* Whether the loop of route goes round again after a failed attempt.
RetryAlways(attempts) == TRUE
Retry(attempts) == attempts < max_retries

\* let latency = start.elapsed(), and the match on the result of the attempt,
\* lines 215-257
RouteRecord(t) ==
    LET p == selected[t]
        latency_ms == latency_of[p] IN
    /\ rpc[t] = "record"
    /\ IF call_result[t] = "Ok"
       THEN /\ health_metrics' = [health_metrics EXCEPT
                                    ![p] = record_success_health(@, latency_ms)]
            /\ route_result' = [route_result EXCEPT ![t] = "Ok"]
            /\ rpc' = [rpc EXCEPT ![t] = "idle"]
            /\ UNCHANGED <<attempt, failed>>
       ELSE /\ health_metrics' = engine_record_failure(p)
            /\ attempt' = [attempt EXCEPT ![t] = @ + 1]
            /\ failed' = [failed EXCEPT ![t] = @ + 1]
            /\ IF Retry(attempt[t] + 1)
               THEN /\ rpc' = [rpc EXCEPT ![t] = "backoff"]
                    /\ UNCHANGED route_result
               ELSE /\ route_result' = [route_result EXCEPT ![t] = "AllProvidersFailed"]
                    /\ rpc' = [rpc EXCEPT ![t] = "idle"]
    /\ UNCHANGED <<breakers, cb_config, counter, strategy, max_retries, in_route,
                   selected, call_result, ncalls, invocations, probe, streak,
                   enabled, retry_config, sleeps, rr_window>>

\* let backoff = self.retry_config.backoff_duration(attempt - 1);
\* tokio::time::sleep(backoff).await returns and the loop goes round
Backoff(t) ==
    /\ rpc[t] = "backoff"
    /\ rpc' = [rpc EXCEPT ![t] = "select"]
    /\ sleeps' = [sleeps EXCEPT ![t] = Append(@, backoff_duration(attempt[t] - 1))]
    /\ UNCHANGED <<breakers, cb_config, health_metrics, counter, strategy,
                   max_retries, in_route, selected, attempt, call_result,
                   route_result, ncalls, invocations, failed, probe, streak,
                   enabled, retry_config, rr_window>>

(***************************************************************************)
(* handle_chat_completions, src/crates/llm-edge-agent/src/proxy.rs:123-252 *)
(* state.cache_manager is the CacheManager modelled above.                 *)
(***************************************************************************)
\* str::to_lowercase, on the letters the model names use
Lower(c) == CASE c = "G" -> "g" [] c = "P" -> "p" [] c = "T" -> "t" [] OTHER -> c
to_lowercase(str) == [i \in 1..Len(str) |-> Lower(str[i])]

\* str::contains
contains(str, sub) ==
    \E i \in 1..(Len(str) - Len(sub) + 1) : SubSeq(str, i, i + Len(sub) - 1) = sub

\* select_provider of proxy.rs: the provider_name, or "none" when no provider
\* is configured
select_provider(request) ==
    LET model_lower == to_lowercase(request.model) IN
    IF (contains(model_lower, <<"g", "p", "t">>)
            \/ contains(model_lower, <<"o", "p", "e", "n", "a", "i">>))
        /\ openai_provider
    THEN "openai"
    ELSE IF (contains(model_lower, <<"c", "l", "a", "u", "d", "e">>)
            \/ contains(model_lower, <<"a", "n", "t", "h", "r", "o", "p", "i", "c">>))
        /\ anthropic_provider
    THEN "anthropic"
    ELSE IF openai_provider THEN "openai"
    ELSE IF anthropic_provider THEN "anthropic"
    ELSE "none"

NoResponse ==
    [status |-> "none", provider |-> "none", cached |-> FALSE,
     cache_tier |-> "None", content |-> None]

\* ProxyError
ErrorResponse(kind) == [NoResponse EXCEPT !.status = kind]

\* build_response_from_cache
build_response_from_cache(cached, cache_tier) ==
    [status |-> "Ok", provider |-> "cache", cached |-> TRUE,
     cache_tier |-> cache_tier, content |-> cached]

\* build_response_from_provider
build_response_from_provider(provider_response, provider_name) ==
    [status |-> "Ok", provider |-> provider_name, cached |-> FALSE,
     cache_tier |-> "None", content |-> provider_response]

StoreTasks == [request : { convert_to_cacheable(c) : c \in ChatReqs }, response : Resps]

PipeInit ==
    /\ openai_provider \in BOOLEAN
    /\ anthropic_provider \in BOOLEAN
    /\ hpc = [t \in Tasks |-> "idle"]
    /\ hreq = [t \in Tasks |-> NoChatReq]
    /\ hlookup = [t \in Tasks |-> "none"]
    /\ hprovider = [t \in Tasks |-> "none"]
    /\ hresp = [t \in Tasks |-> NoResponse]
    /\ store_tasks = EmptyBag
    /\ nreqs = 0
    /\ sends = [t \in Tasks |-> 0]
    /\ store_spawns = [t \in Tasks |-> 0]
    /\ hafter = [t \in Tasks |-> None]

\* A proxy nobody calls: the handler variables in the other specifications.
PipeIdle == PipeInit /\ ~openai_provider /\ ~anthropic_provider

\* history: the content a provider was answered with for `request`, in a
\* response the proxy has returned; None if there is no such response
AnsweredBefore(request) ==
    LET done == {u \in Tasks : /\ hpc[u] = "idle" /\ hreq[u] = request
                               /\ hresp[u].status = "Ok" /\ ~hresp[u].cached} IN
    IF done = {} THEN None ELSE hresp[CHOOSE u \in done : TRUE].content

\* Steps 1 and 2: validate_request(&request)?, convert_to_cacheable
HandleStart(t, request) ==
    /\ hpc[t] = "idle"
    /\ nreqs < MaxRequests
    /\ nreqs' = nreqs + 1
    /\ hreq' = [hreq EXCEPT ![t] = request]
    /\ hlookup' = [hlookup EXCEPT ![t] = "none"]
    /\ hprovider' = [hprovider EXCEPT ![t] = "none"]
    /\ sends' = [sends EXCEPT ![t] = 0]
    /\ store_spawns' = [store_spawns EXCEPT ![t] = 0]
    /\ hafter' = [hafter EXCEPT ![t] = AnsweredBefore(request)]
    /\ IF validate_request(request) = "Ok"
       THEN /\ hpc' = [hpc EXCEPT ![t] = "lookup"]
            /\ hresp' = [hresp EXCEPT ![t] = NoResponse]
       ELSE /\ hresp' = [hresp EXCEPT ![t] = ErrorResponse("ValidationError")]
            /\ UNCHANGED hpc
    /\ UNCHANGED <<openai_provider, anthropic_provider, store_tasks>>

\* The match on cache_lookup, lines 145-176
IsCacheHitL1Only(res) == res = "L1Hit"
IsCacheHit(res) == res \in {"L1Hit", "L2Hit"}

\* What the handler does with the result of the lookup: a hit is answered
\* from the cache; a miss goes to select_provider (Step 4) and, with a
\* provider, to provider.send (Step 6).
AfterLookup(t, result) ==
    /\ hlookup' = [hlookup EXCEPT ![t] = result.res]
    /\ IF IsCacheHit(result.res)
       THEN /\ hresp' = [hresp EXCEPT ![t] = build_response_from_cache(
                            result.val, IF result.res = "L1Hit" THEN "l1" ELSE "l2")]
            /\ hpc' = [hpc EXCEPT ![t] = "idle"]
            /\ UNCHANGED <<hprovider, sends>>
       ELSE IF select_provider(hreq[t]) = "none"
       THEN /\ hresp' = [hresp EXCEPT ![t] = ErrorResponse("InternalError")]
            /\ hpc' = [hpc EXCEPT ![t] = "idle"]
            /\ UNCHANGED <<hprovider, sends>>
       ELSE /\ hprovider' = [hprovider EXCEPT ![t] = select_provider(hreq[t])]
            /\ sends' = [sends EXCEPT ![t] = @ + 1]
            /\ hpc' = [hpc EXCEPT ![t] = "send"]
            /\ UNCHANGED hresp
    /\ UNCHANGED <<openai_provider, anthropic_provider, hreq, store_tasks, nreqs,
                   store_spawns, hafter>>

\* Step 3: state.cache_manager.lookup(&cacheable_req).await, up to its L1 read
HandleLookupL1(t) ==
    /\ hpc[t] = "lookup"
    /\ LookupL1(t, convert_to_cacheable(hreq[t]))
    /\ IF pc'[t] = "lookup_l2"
       THEN /\ hpc' = [hpc EXCEPT ![t] = "lookup_l2"]
            /\ UNCHANGED <<openai_provider, anthropic_provider, hreq, hlookup,
                           hprovider, hresp, store_tasks, nreqs, sends, store_spawns,
                           hafter>>
       ELSE AfterLookup(t, ret'[t])

\* Step 3, the L2 query of the lookup
HandleLookupL2(t) ==
    /\ hpc[t] = "lookup_l2"
    /\ LookupL2(t)
    /\ AfterLookup(t, ret'[t])

\* provider.send(..).await.map_err(..)?: whether the handler goes on to Step 9,
\* the spawn of the store, given that send returned Ok or Err
ReachesStoreAlways(ok) == TRUE
ReachesStore(ok) == ok

\* Steps 6 to 10: provider.send returns; on Ok the store is spawned and the
\* provider's response is returned, on Err the handler returns ProviderError
HandleSendReturn(t) ==
    /\ hpc[t] = "send"
    /\ hpc' = [hpc EXCEPT ![t] = "idle"]
    /\ \E ok \in BOOLEAN, provider_response \in Resps :
         /\ IF ReachesStore(ok)
            THEN /\ BagCardinality(store_tasks) < MaxSpawned
                 /\ store_tasks' = store_tasks (+) SetToBag({
                       [request |-> convert_to_cacheable(hreq[t]),
                        response |-> provider_response]})
                 /\ store_spawns' = [store_spawns EXCEPT ![t] = @ + 1]
            ELSE UNCHANGED <<store_tasks, store_spawns>>
         /\ hresp' = [hresp EXCEPT ![t] =
                IF ok THEN build_response_from_provider(provider_response, hprovider[t])
                ELSE ErrorResponse("ProviderError")]
    /\ UNCHANGED <<openai_provider, anthropic_provider, hreq, hlookup, hprovider,
                   nreqs, sends, hafter>>

\* The spawned task of Step 9: cache_manager.store(&cacheable_req, cache_response)
RunStore(b, t) ==
    /\ BagIn(b, store_tasks)
    /\ hpc[t] = "idle"
    /\ store_tasks' = store_tasks (-) SetToBag({b})
    /\ Store(t, b.request, b.response)
    /\ UNCHANGED <<openai_provider, anthropic_provider, hpc, hreq, hlookup,
                   hprovider, hresp, nreqs, sends, store_spawns, hafter>>

(***************************************************************************)
(* The provider clients: OpenAIProvider::send_request,                     *)
(* src/src/providers/openai.rs:142-205, and AnthropicProvider::send_request,*)
(* src/src/providers/anthropic.rs:191-255.  The two loops differ in the    *)
(* URL, the headers and the provider name only.                            *)
(***************************************************************************)
VARIABLES
    client_max_retries,  \* OpenAIProvider.max_retries / AnthropicProvider.max_retries
    sr_pc,               \* per task: "idle", "loop" (inside send_request) or "done"
    sr_client,           \* per task: the client whose send_request runs
    sr_attempt,          \* per task: the loop variable `attempt`
    last_error,          \* per task: the local last_error, or "None"
    sr_outcome,          \* per task: how the latest HTTP attempt ended
    sr_result,           \* per task: what send_request returned
    http_attempts,       \* history, per task: HTTP attempts of this send_request
    backoff_ms,          \* per task: the latest sleep before an attempt
    nsends,              \* number of send_request calls started so far
    seen_401,            \* history, per task: a 401 was answered to this request
    after_401            \* history, per task: HTTP attempts made after that

provVars == <<client_max_retries, sr_pc, sr_client, sr_attempt, last_error,
              sr_outcome, sr_result, http_attempts, backoff_ms, nsends,
              seen_401, after_401>>

MaxClientRetries == 2
MaxSends == 3

Clients == {"openai", "anthropic"}

\* How one HTTP attempt can end: a 200 whose body parses, a 200 whose body does
\* not, a 401, a 429, a 500, a 404, a timeout, another transport error.
HttpOutcomes == {"200", "200-unparsable", "401", "429", "500", "404",
                 "timeout", "error"}

\* 100 * (1 << (attempt - 1))
backoff_of(at) == 100 * Pow(2, at - 1)

\* The branches of the match that end in `continue` after setting last_error
\* (openai.rs:163-168, 174-179, 193-200) and the error each one keeps.
ErrorKept(o) ==
    CASE o = "200-unparsable" -> "SerializationError"
      [] o = "429" -> "RateLimitExceeded"
      [] o = "timeout" -> "Timeout"
      [] o = "error" -> "HttpError"
      [] OTHER -> "None"

Continues(o) == ErrorKept(o) # "None"

\* The branches that return: Ok(response) on a parsed 200, InvalidApiKey on
\* 401, ProviderError on every other status that is neither success nor 429
\* (openai.rs:161-162, 169-173, 180-185).
Returned(o) ==
    CASE o = "200" -> "Ok"
      [] o = "401" -> "InvalidApiKey"
      [] OTHER -> "ProviderError"

ProvInit ==
    /\ client_max_retries \in 0..MaxClientRetries
    /\ sr_pc = [t \in Tasks |-> "idle"]
    /\ sr_client = [t \in Tasks |-> "openai"]
    /\ sr_attempt = [t \in Tasks |-> 0]
    /\ last_error = [t \in Tasks |-> "None"]
    /\ sr_outcome = [t \in Tasks |-> "none"]
    /\ sr_result = [t \in Tasks |-> "none"]
    /\ http_attempts = [t \in Tasks |-> 0]
    /\ backoff_ms = [t \in Tasks |-> 0]
    /\ nsends = 0
    /\ seen_401 = [t \in Tasks |-> FALSE]
    /\ after_401 = [t \in Tasks |-> 0]

\* Clients nobody calls: the client variables in the other specifications.
ProvIdle == ProvInit /\ client_max_retries = 0

\* send_request is called on client c: let mut last_error = None, and the for
\* loop starts at attempt 0.  The history of the request starts anew unless
\* the call is a later attempt of a route in progress.
SendRequest(t, c) ==
    /\ sr_pc[t] # "loop"
    /\ nsends < MaxSends
    /\ nsends' = nsends + 1
    /\ sr_pc' = [sr_pc EXCEPT ![t] = "loop"]
    /\ sr_client' = [sr_client EXCEPT ![t] = c]
    /\ sr_attempt' = [sr_attempt EXCEPT ![t] = 0]
    /\ last_error' = [last_error EXCEPT ![t] = "None"]
    /\ sr_outcome' = [sr_outcome EXCEPT ![t] = "none"]
    /\ sr_result' = [sr_result EXCEPT ![t] = "none"]
    /\ http_attempts' = [http_attempts EXCEPT ![t] = 0]
    /\ backoff_ms' = [backoff_ms EXCEPT ![t] = 0]
    /\ IF in_route[t] /\ invocations[t] > 1
       THEN UNCHANGED <<seen_401, after_401>>
       ELSE /\ seen_401' = [seen_401 EXCEPT ![t] = FALSE]
            /\ after_401' = [after_401 EXCEPT ![t] = 0]
    /\ UNCHANGED client_max_retries

\* One round of `for attempt in 0..=self.max_retries`: the sleep when
\* attempt > 0, the POST, and the match on its result.
HttpAttempt(t) ==
    /\ sr_pc[t] = "loop"
    /\ sr_attempt[t] <= client_max_retries
    /\ backoff_ms' = [backoff_ms EXCEPT ![t] =
                        IF sr_attempt[t] > 0 THEN backoff_of(sr_attempt[t]) ELSE 0]
    /\ http_attempts' = [http_attempts EXCEPT ![t] = @ + 1]
    /\ after_401' = [after_401 EXCEPT ![t] = IF seen_401[t] THEN @ + 1 ELSE @]
    /\ \E o \in HttpOutcomes :
         /\ sr_outcome' = [sr_outcome EXCEPT ![t] = o]
         /\ seen_401' = [seen_401 EXCEPT ![t] = @ \/ o = "401"]
         /\ IF Continues(o)
            THEN /\ last_error' = [last_error EXCEPT ![t] = ErrorKept(o)]
                 /\ sr_attempt' = [sr_attempt EXCEPT ![t] = @ + 1]
                 /\ UNCHANGED <<sr_pc, sr_result>>
            ELSE /\ sr_result' = [sr_result EXCEPT ![t] = Returned(o)]
                 /\ sr_pc' = [sr_pc EXCEPT ![t] = "done"]
                 /\ UNCHANGED <<last_error, sr_attempt>>
    /\ UNCHANGED <<client_max_retries, sr_client, nsends>>

\* The loop is over: Err(last_error.unwrap_or_else(|| InternalError(..)))
Exhausted(t) ==
    /\ sr_pc[t] = "loop"
    /\ sr_attempt[t] > client_max_retries
    /\ sr_result' = [sr_result EXCEPT ![t] =
                        IF last_error[t] = "None" THEN "InternalError"
                        ELSE last_error[t]]
    /\ sr_pc' = [sr_pc EXCEPT ![t] = "done"]
    /\ UNCHANGED <<client_max_retries, sr_client, sr_attempt, last_error,
                   sr_outcome, http_attempts, backoff_ms, nsends, seen_401,
                   after_401>>

\* RoutingEngine::route called with the closure |provider| the client's
\* send_request: the closure starts when the breaker has admitted the call,
\* the breaker sees its result, and the future and its locals are dropped.
ClosureStart(t) ==
    /\ rpc[t] = "inflight"
    /\ sr_pc[t] = "idle"
    /\ \E c \in Clients : SendRequest(t, c)

ClosureEnd(t) ==
    /\ sr_pc[t] = "done"
    /\ CallReturn(t, sr_result[t] = "Ok")
    /\ sr_pc' = [sr_pc EXCEPT ![t] = "idle"]
    /\ sr_client' = [sr_client EXCEPT ![t] = "openai"]
    /\ sr_attempt' = [sr_attempt EXCEPT ![t] = 0]
    /\ last_error' = [last_error EXCEPT ![t] = "None"]
    /\ sr_outcome' = [sr_outcome EXCEPT ![t] = "none"]
    /\ sr_result' = [sr_result EXCEPT ![t] = "none"]
    /\ http_attempts' = [http_attempts EXCEPT ![t] = 0]
    /\ backoff_ms' = [backoff_ms EXCEPT ![t] = 0]
    /\ UNCHANGED <<client_max_retries, nsends, seen_401, after_401>>

\* An engine with the failover chain and three attempts, over the clients
ClientRouteInit ==
    /\ RouteInit
    /\ cb_config = [failure_threshold |-> EngineFailureThreshold,
                    timeout |-> EngineTimeout]
    /\ strategy = "failover-chain"
    /\ max_retries = DefaultMaxRetries
    /\ enabled = [p \in ProviderIds |-> p # "p3"]
    /\ retry_config = DefaultRetry


(***************************************************************************)
(* The time L2Cache::get takes, src/crates/llm-edge-cache/src/l2.rs:96-148.*)
(* CacheManager::lookup awaits nothing else after an L1 miss               *)
(* (src/src/cache/mod.rs:119-144).  The clock counts units of 50 ms.       *)
(***************************************************************************)
VARIABLES
    clock,     \* the tokio clock
    g_pc,      \* per task: "idle", "connect", "query" or "done"
    g_start,   \* per task: the time at which get was called
    g_conn,    \* per task: the time at which the connection was established
    g_end,     \* per task: the time at which get returned
    g_res,     \* per task: what get returned
    ngets      \* number of get calls started so far

getVars == <<clock, g_pc, g_start, g_conn, g_end, g_res, ngets>>

OperationTimeout == 2   \* operation_timeout_ms: 100
MaxClock == 5
MaxGets == 3

\* A time later than every time the model reaches
Never == MaxClock + OperationTimeout + 1

GetInit ==
    /\ clock = 0
    /\ g_pc = [t \in Tasks |-> "idle"]
    /\ g_start = [t \in Tasks |-> 0]
    /\ g_conn = [t \in Tasks |-> 0]
    /\ g_end = [t \in Tasks |-> 0]
    /\ g_res = [t \in Tasks |-> "none"]
    /\ ngets = 0

GetIdle == GetInit

\* tokio::time::timeout(operation_timeout_ms, self.get_internal(..)): the time
\* at which the timeout elapses.  The future it wraps opens the connection
\* and sends the GET.
DeadlineAfterConnect(t) ==
    IF g_pc[t] = "connect" THEN Never ELSE g_conn[t] + OperationTimeout
Deadline(t) == g_start[t] + OperationTimeout

Pending(t) == g_pc[t] \in {"connect", "query"}

\* lookup has missed L1 and calls l2.get(&cache_key)
GetStart(t) ==
    /\ ~Pending(t)
    /\ ngets < MaxGets
    /\ ngets' = ngets + 1
    /\ g_pc' = [g_pc EXCEPT ![t] = "connect"]
    /\ g_start' = [g_start EXCEPT ![t] = clock]
    /\ g_conn' = [g_conn EXCEPT ![t] = 0]
    /\ g_end' = [g_end EXCEPT ![t] = 0]
    /\ g_res' = [g_res EXCEPT ![t] = "none"]
    /\ UNCHANGED clock

\* get_multiplexed_async_connection().await returns: a connection, or an
\* error that `?` returns as Ok(Err(e)) of the timeout
Connect(t) ==
    /\ g_pc[t] = "connect"
    /\ clock < Deadline(t)
    /\ \E ok \in BOOLEAN :
         IF ok THEN /\ g_pc' = [g_pc EXCEPT ![t] = "query"]
                    /\ g_conn' = [g_conn EXCEPT ![t] = clock]
                    /\ UNCHANGED <<g_end, g_res>>
         ELSE /\ g_pc' = [g_pc EXCEPT ![t] = "done"]
              /\ g_end' = [g_end EXCEPT ![t] = clock]
              /\ g_res' = [g_res EXCEPT ![t] = "Err"]
              /\ UNCHANGED g_conn
    /\ UNCHANGED <<clock, g_start, ngets>>

\* conn.get(key).await returns and the answer is parsed
Reply(t) ==
    /\ g_pc[t] = "query"
    /\ clock < Deadline(t)
    /\ \E r \in {"Some", "None", "Err"} :
         g_res' = [g_res EXCEPT ![t] = r]
    /\ g_pc' = [g_pc EXCEPT ![t] = "done"]
    /\ g_end' = [g_end EXCEPT ![t] = clock]
    /\ UNCHANGED <<clock, g_start, g_conn, ngets>>

\* The timeout elapses first: Err(_) => Err(L2Error::Timeout)
Elapsed(t) ==
    /\ Pending(t)
    /\ clock >= Deadline(t)
    /\ g_pc' = [g_pc EXCEPT ![t] = "done"]
    /\ g_end' = [g_end EXCEPT ![t] = clock]
    /\ g_res' = [g_res EXCEPT ![t] = "Timeout"]
    /\ UNCHANGED <<clock, g_start, g_conn, ngets>>

\* Time passes; a timeout that has elapsed is delivered before it passes on.
Advance ==
    /\ clock < MaxClock
    /\ \A t \in Tasks : Pending(t) => clock < Deadline(t)
    /\ clock' = clock + 1
    /\ UNCHANGED <<g_pc, g_start, g_conn, g_end, g_res, ngets>>


\* A cache manager that starts with an empty L1 while Redis holds the response
\* stored for one request by an earlier run; the calls are for that request.
WarmReq == CacheableRequest(<<"m">>, <<"p">>, 700, 16)
WarmKey == generate_cache_key(WarmReq)

WarmState ==
    /\ l1 = [k \in Keys |-> None]
    /\ l2 = [k \in RedisKeys |-> IF k = prefixed_key(WarmKey) THEN to_json("r1") ELSE NoJson]
    /\ spawned = EmptyBag
    /\ pc = [t \in Tasks |-> "idle"]
    /\ arg = [t \in Tasks |-> NoReq]
    /\ ret = [t \in Tasks |-> NoResult]
    /\ nops = 0
    /\ stored = {<<WarmKey, "r1">>}
    /\ since = [t \in Tasks |-> NoSince]
    /\ exp = [t \in Tasks |-> NoExp]
    /\ inv = [k \in Keys |-> "none"]
    /\ metrics = NewMetrics

WarmInit == has_l2 = TRUE /\ WarmState

(***************************************************************************)
(* CacheManager::with_l2, src/src/cache/mod.rs:90-96, over                 *)
(* create_l2_cache_optional and L2Cache::with_config,                      *)
(* src/crates/llm-edge-cache/src/l2.rs:69-87 and 277-286.                  *)
(***************************************************************************)
VARIABLES
    init_outcome   \* history: the constructor of the manager and how the
                   \*   initialisation of L2 ended, where that is followed

initVars == <<init_outcome>>

InitIdle == init_outcome = "unobserved"

\* How L2Cache::with_config can end: Redis answers the PING; Client::open
\* rejects the URL; no connection is established; the PING fails.
InitFailures == {"open error", "connection error", "ping error"}
InitOutcomes == {"ok"} \cup InitFailures

\* L2Cache::with_config: each of the three `?` returns the error
with_config(outcome) == IF outcome = "ok" THEN "Ok" ELSE "Err"

\* create_l2_cache_optional: Ok(cache) => Some(cache), Err(e) => None
create_l2_cache_unchecked(result) == TRUE
create_l2_cache_optional(result) == result = "Ok"

\* CacheManager::new() and CacheManager::with_l2(config): the l2 field
ManagerL2(ctor) ==
    IF ctor = "new" THEN FALSE ELSE create_l2_cache_optional(with_config(ctor))

\* A manager from either constructor, over a Redis that holds the response
\* an earlier run stored for one request.
FailSoftInit ==
    /\ init_outcome \in {"new"} \cup InitOutcomes
    /\ has_l2 = ManagerL2(init_outcome)
    /\ WarmState

(***************************************************************************)
(* ProviderHealth::is_healthy called on a health record, at any time after *)
(* the record was last written: src/src/routing/mod.rs:66-98.              *)
(***************************************************************************)
VARIABLES
    h_arg,    \* the ProviderHealth is_healthy is called on
    h_ret,    \* <<what the latest call returned>>, or <<>> before any call
    h_at      \* the time of the latest call

healthVars == <<h_arg, h_ret, h_at>>

MaxTotal == 5

\* The records with up to MaxTotal requests, whose last success, if any, was
\* at time 0.
HealthRecords ==
    { [NewHealth EXCEPT !.total_requests = n, !.successful_requests = s,
                        !.failed_requests = n - s, !.last_success = ls] :
        n \in 0..MaxTotal, s \in 0..MaxTotal, ls \in {Absent, 0} }

HealthInit ==
    /\ h_arg \in { h \in HealthRecords :
                     /\ h.successful_requests <= h.total_requests
                     /\ (h.successful_requests > 0 => h.last_success # Absent) }
    /\ h_ret = <<>>
    /\ h_at = 0

HealthIdle == h_arg = NewHealth /\ h_ret = <<>> /\ h_at = 0

\* health.is_healthy()
CheckHealth ==
    /\ h_ret' = <<is_healthy(h_arg)>>
    /\ h_at' = now
    /\ UNCHANGED h_arg

(***************************************************************************)
(* generate_cache_key called on two requests,                              *)
(* src/crates/llm-edge-cache/src/key.rs:68-109.                            *)
(***************************************************************************)
VARIABLES
    k_a,     \* the first request
    k_b,     \* the second request
    k_ret    \* <<key of the first, key of the second>>, or <<>> before the calls

keyVars == <<k_a, k_b, k_ret>>

MaxParams == 2

ParamNames == {<<"a">>, <<"b">>, <<"c">>}
ParamValues == {<<"1">>, <<"2">>}

\* The maps of up to MaxParams entries, in every iteration order
ParamMaps ==
    UNION { { ps \in [1..n -> ParamNames \X ParamValues] :
                \A i, j \in 1..n : i # j => ps[i][1] # ps[j][1] } :
            n \in 0..MaxParams }

KeyInputs ==
    { [model |-> <<"m">>, prompt |-> p, temperature |-> t, max_tokens |-> 16,
       parameters |-> ps] :
        p \in {<<"p">>, <<"q">>}, t \in {Absent, 700}, ps \in ParamMaps }

KeyInit ==
    /\ k_a \in KeyInputs
    /\ k_b \in KeyInputs
    /\ k_ret = <<>>

KeyIdle == k_a = NoReq /\ k_b = NoReq /\ k_ret = <<>>

\* generate_cache_key(&req1) and generate_cache_key(&req2)
GenerateKeys ==
    /\ k_ret = <<>>
    /\ "prompt" \in DOMAIN k_a
    /\ k_ret' = <<generate_cache_key(k_a), generate_cache_key(k_b)>>
    /\ UNCHANGED <<k_a, k_b>>

(***************************************************************************)
(* Requests whose text holds the separators of the encodings: the "|" that *)
(* generate_cache_key puts between the fields (key.rs:72-86) and the ": "  *)
(* and "\n" that convert_to_cacheable puts between roles, contents and     *)
(* messages (proxy.rs:275-280).  Neither function escapes its input.       *)
(***************************************************************************)
\* CacheableRequest::new(model, prompt) with any text for both
TextInputs ==
    { [model |-> mo, prompt |-> p, temperature |-> t, max_tokens |-> Absent,
       parameters |-> <<>>] :
        mo \in {<<"a">>, <<"a", "|", "b">>},
        p \in {<<"b">>, <<"c">>, <<"b", "|", "c">>},
        t \in {Absent, 700} }

\* Bodies of POST /v1/chat/completions: one message of two lines, and two
\* messages of one line each
ChatInputs ==
    { ChatCompletionRequest(mo, msgs, Absent, Absent, FALSE) :
        mo \in {<<"m">>, <<"n">>},
        msgs \in { <<ChatMessage(<<"u">>, <<"a">>)>>,
                   <<ChatMessage(<<"u">>, <<"a", "\n", "u", ":", " ", "b">>)>>,
                   <<ChatMessage(<<"u">>, <<"a">>), ChatMessage(<<"u">>, <<"b">>)>> } }

TextInit ==
    /\ \/ k_a \in TextInputs /\ k_b \in TextInputs
       \/ k_a \in ChatInputs /\ k_b \in ChatInputs
    /\ k_ret = <<>>

\* handle_chat_completions up to the key its lookup computes:
\* convert_to_cacheable(&request), then generate_cache_key(request) in lookup
GenerateChatKeys ==
    /\ k_ret = <<>>
    /\ "messages" \in DOMAIN k_a
    /\ k_ret' = <<generate_cache_key(convert_to_cacheable(k_a)),
                  generate_cache_key(convert_to_cacheable(k_b))>>
    /\ UNCHANGED <<k_a, k_b>>

(***************************************************************************)
(* CircuitBreaker::record_failure and CircuitBreaker::state called by      *)
(* concurrent threads, src/crates/llm-edge-routing/src/circuit_breaker.rs: *)
(* each atomic operation and each critical section of the mutex is a step. *)
(***************************************************************************)
VARIABLES
    a_pc,        \* per thread: where it is in record_failure or state
    a_failures,  \* per thread: the local `failures` of state
    a_ret,       \* per thread: what its last call of state returned
    rf_last      \* history: when record_failure was last called

atomVars == <<a_pc, a_failures, a_ret, rf_last>>

AtomInit ==
    /\ a_pc = [t \in Tasks |-> "idle"]
    /\ a_failures = [t \in Tasks |-> 0]
    /\ a_ret = [t \in Tasks |-> "none"]
    /\ rf_last = Absent

AtomIdle == AtomInit

\* record_failure, line 64: self.failure_count.fetch_add(1, Ordering::Relaxed)
FailureAdd(t) ==
    /\ a_pc[t] = "idle"
    /\ failure_count < MaxFailures
    /\ failure_count' = failure_count + 1
    /\ a_pc' = [a_pc EXCEPT ![t] = "rf_store"]
    /\ rf_last' = now
    /\ UNCHANGED <<success_count, threshold, timeout, last_failure_time, now,
                   last_op, ho_succ, last_ho_failure, opened_at, succ_run,
                   fail_run, a_failures, a_ret>>

\* record_failure, line 65: self.success_count.store(0, Ordering::Relaxed)
FailureStore(t) ==
    /\ a_pc[t] = "rf_store"
    /\ success_count' = 0
    /\ a_pc' = [a_pc EXCEPT ![t] = "rf_time"]
    /\ UNCHANGED <<failure_count, threshold, timeout, last_failure_time, now,
                   last_op, ho_succ, last_ho_failure, opened_at, succ_run,
                   fail_run, a_failures, a_ret, rf_last>>

\* record_failure, line 66: *self.last_failure_time.lock() = Some(Instant::now())
FailureStamp(t) ==
    /\ a_pc[t] = "rf_time"
    /\ last_failure_time' = now
    /\ a_pc' = [a_pc EXCEPT ![t] = "idle"]
    /\ UNCHANGED <<failure_count, success_count, threshold, timeout, now,
                   last_op, ho_succ, last_ho_failure, opened_at, succ_run,
                   fail_run, a_failures, a_ret, rf_last>>

\* state, lines 36-40: the load of failure_count and the early return
StateLoad(t) ==
    /\ a_pc[t] = "idle"
    /\ a_failures' = [a_failures EXCEPT ![t] = failure_count]
    /\ IF failure_count < threshold
       THEN /\ a_ret' = [a_ret EXCEPT ![t] = "Closed"]
            /\ UNCHANGED a_pc
       ELSE /\ a_pc' = [a_pc EXCEPT ![t] = "st_lock"]
            /\ a_ret' = [a_ret EXCEPT ![t] = "none"]
    /\ UNCHANGED <<cbVars, rf_last>>

\* state, lines 43-50: the lock of last_failure_time and the comparison
StateLock(t) ==
    /\ a_pc[t] = "st_lock"
    /\ a_ret' = [a_ret EXCEPT ![t] =
                    IF last_failure_time # Absent /\ elapsed(last_failure_time) > timeout
                    THEN "HalfOpen" ELSE "Open"]
    /\ a_pc' = [a_pc EXCEPT ![t] = "idle"]
    /\ UNCHANGED <<cbVars, a_failures, rf_last>>

(***************************************************************************)
(* The calls of L1Cache::get and L1Cache::set a CacheManager has made,     *)
(* src/src/cache/mod.rs:113, 129 and 158: the record against which the     *)
(* counters of CacheMetrics are read.                                      *)
(***************************************************************************)
VARIABLES
    calls    \* history: "hit" or "miss" for each l1.get of a lookup, "store"
             \*   for each l1.set of a store, "promote" for each l1.set of a
             \*   promotion, in the order in which they were made

callsVars == <<calls>>

CallsInit == calls = <<>>

CallsIdle == CallsInit

\* self.l1.get(&cache_key) returned Some or None
GetKind(request) ==
    IF l1[generate_cache_key(request)] # None THEN "hit" ELSE "miss"

\* The number of calls of one kind made so far
TimesCalled(kind) == Cardinality({i \in 1..Len(calls) : calls[i] = kind})

notProv == <<getVars, initVars, healthVars, keyVars, atomVars, callsVars>>
NotProvIdle == GetIdle /\ InitIdle /\ HealthIdle /\ KeyIdle /\ AtomIdle /\ CallsIdle
notGet == <<provVars, initVars, healthVars, keyVars, atomVars, callsVars>>
NotGetIdle == ProvIdle /\ InitIdle /\ HealthIdle /\ KeyIdle /\ AtomIdle /\ CallsIdle
notInit == <<provVars, getVars, healthVars, keyVars, atomVars, callsVars>>
NotInitIdle == ProvIdle /\ GetIdle /\ HealthIdle /\ KeyIdle /\ AtomIdle /\ CallsIdle
notHealth == <<provVars, getVars, initVars, keyVars, atomVars, callsVars>>
NotHealthIdle == ProvIdle /\ GetIdle /\ InitIdle /\ KeyIdle /\ AtomIdle /\ CallsIdle
notKey == <<provVars, getVars, initVars, healthVars, atomVars, callsVars>>
NotKeyIdle == ProvIdle /\ GetIdle /\ InitIdle /\ HealthIdle /\ AtomIdle /\ CallsIdle
notAtom == <<provVars, getVars, initVars, healthVars, keyVars, callsVars>>
NotAtomIdle == ProvIdle /\ GetIdle /\ InitIdle /\ HealthIdle /\ KeyIdle /\ CallsIdle
notCalls == <<provVars, getVars, initVars, healthVars, keyVars, atomVars>>
NotCallsIdle == ProvIdle /\ GetIdle /\ InitIdle /\ HealthIdle /\ KeyIdle /\ AtomIdle
extVars == <<provVars, getVars, initVars, healthVars, keyVars, atomVars, callsVars>>
ExtIdle == ProvIdle /\ GetIdle /\ InitIdle /\ HealthIdle /\ KeyIdle /\ AtomIdle /\ CallsIdle

(***************************************************************************)
(* The specifications.                                                     *)
(***************************************************************************)
vars == <<cacheVars, cbVars, routeVars, pipeVars, extVars>>

CacheNext ==
    \/ (\E t \in Tasks, q \in Reqs : LookupL1(t, q)) /\ UNCHANGED <<cbVars, routeVars, pipeVars, extVars>>
    \/ (\E t \in Tasks : LookupL2(t)) /\ UNCHANGED <<cbVars, routeVars, pipeVars, extVars>>
    \/ (\E b \in BgTasks : RunPromote(b)) /\ UNCHANGED <<cbVars, routeVars, pipeVars, extVars>>
    \/ (\E t \in Tasks, q \in Reqs, r \in Resps : Store(t, q, r)) /\ UNCHANGED <<cbVars, routeVars, pipeVars, extVars>>
    \/ (\E b \in BgTasks : RunL2Set(b)) /\ UNCHANGED <<cbVars, routeVars, pipeVars, extVars>>
    \/ (\E t \in Tasks, q \in Reqs : InvalidateL1(t, q)) /\ UNCHANGED <<cbVars, routeVars, pipeVars, extVars>>
    \/ (\E t \in Tasks : InvalidateL2(t)) /\ UNCHANGED <<cbVars, routeVars, pipeVars, extVars>>
    \/ (\E t \in Tasks : ClearL1(t)) /\ UNCHANGED <<cbVars, routeVars, pipeVars, extVars>>
    \/ (\E t \in Tasks : ClearL2(t)) /\ UNCHANGED <<cbVars, routeVars, pipeVars, extVars>>
    \/ (\E k \in Keys : L1Evict(k)) /\ UNCHANGED <<cbVars, routeVars, pipeVars, extVars>>
    \/ (\E rk \in RedisKeys : L2Expire(rk)) /\ UNCHANGED <<cbVars, routeVars, pipeVars, extVars>>

InitCache == CacheInit /\ CBIdle /\ RouteIdle /\ PipeIdle /\ ExtIdle

SpecCache == InitCache /\ [][CacheNext]_vars

CBNext ==
    \/ record_success /\ UNCHANGED <<cacheVars, routeVars, pipeVars, extVars>>
    \/ record_failure /\ UNCHANGED <<cacheVars, routeVars, pipeVars, extVars>>
    \/ Tick /\ UNCHANGED <<cacheVars, routeVars, pipeVars, extVars>>

InitCB == CacheIdle /\ CBInit /\ RouteIdle /\ PipeIdle /\ ExtIdle

SpecCB == InitCB /\ [][CBNext]_vars

BreakerNext ==
    \/ (\E t \in Tasks : BreakerCall(t, "p1")) /\ UNCHANGED <<cacheVars, cbVars, pipeVars, extVars>>
    \/ (\E t \in Tasks : CallCheck(t)) /\ UNCHANGED <<cacheVars, cbVars, pipeVars, extVars>>
    \/ (\E t \in Tasks : CallPermit(t)) /\ UNCHANGED <<cacheVars, cbVars, pipeVars, extVars>>
    \/ (\E t \in Tasks : CallEnd(t)) /\ UNCHANGED <<cacheVars, cbVars, pipeVars, extVars>>
    \/ Tick /\ UNCHANGED <<cacheVars, routeVars, pipeVars, extVars>>

InitBreaker == CacheIdle /\ CBIdle /\ BreakerInit /\ PipeIdle /\ ExtIdle

SpecBreaker == InitBreaker /\ [][BreakerNext]_vars

RouteNext ==
    \/ (\E t \in Tasks : RouteStart(t)) /\ UNCHANGED <<cacheVars, cbVars, pipeVars, extVars>>
    \/ (\E t \in Tasks : SelectProvider(t)) /\ UNCHANGED <<cacheVars, cbVars, pipeVars, extVars>>
    \/ (\E t \in Tasks : CallCheck(t)) /\ UNCHANGED <<cacheVars, cbVars, pipeVars, extVars>>
    \/ (\E t \in Tasks : CallPermit(t)) /\ UNCHANGED <<cacheVars, cbVars, pipeVars, extVars>>
    \/ (\E t \in Tasks : CallEnd(t)) /\ UNCHANGED <<cacheVars, cbVars, pipeVars, extVars>>
    \/ (\E t \in Tasks : RouteRecord(t)) /\ UNCHANGED <<cacheVars, cbVars, pipeVars, extVars>>
    \/ (\E t \in Tasks : Backoff(t)) /\ UNCHANGED <<cacheVars, cbVars, pipeVars, extVars>>
    \/ (now < MaxRouteTime /\ Tick) /\ UNCHANGED <<cacheVars, routeVars, pipeVars, extVars>>

InitRoute == CacheIdle /\ CBIdle /\ EngineInit /\ PipeIdle /\ ExtIdle

SpecRoute == InitRoute /\ [][RouteNext]_vars

PipeNext ==
    \/ (\E t \in Tasks, c \in ChatReqs : HandleStart(t, c))
            /\ UNCHANGED <<cacheVars, cbVars, routeVars, extVars>>
    \/ (\E t \in Tasks : HandleLookupL1(t)) /\ UNCHANGED <<cbVars, routeVars, extVars>>
    \/ (\E t \in Tasks : HandleLookupL2(t)) /\ UNCHANGED <<cbVars, routeVars, extVars>>
    \/ (\E t \in Tasks : HandleSendReturn(t))
            /\ UNCHANGED <<cacheVars, cbVars, routeVars, extVars>>
    \/ (\E b \in StoreTasks, t \in Tasks : RunStore(b, t)) /\ UNCHANGED <<cbVars, routeVars, extVars>>
    \/ (\E b \in BgTasks : RunPromote(b)) /\ UNCHANGED <<cbVars, routeVars, pipeVars, extVars>>
    \/ (\E b \in BgTasks : RunL2Set(b)) /\ UNCHANGED <<cbVars, routeVars, pipeVars, extVars>>
    \/ (\E k \in Keys : L1Evict(k)) /\ UNCHANGED <<cbVars, routeVars, pipeVars, extVars>>
    \/ (\E rk \in RedisKeys : L2Expire(rk)) /\ UNCHANGED <<cbVars, routeVars, pipeVars, extVars>>

InitPipeline == CacheInit /\ CBIdle /\ RouteIdle /\ PipeInit /\ ExtIdle

SpecPipeline == InitPipeline /\ [][PipeNext]_vars

\* The pipeline while no cache entry is evicted or expires.
SequentialNext ==
    \/ (\E t \in Tasks, c \in ChatReqs : HandleStart(t, c))
            /\ UNCHANGED <<cacheVars, cbVars, routeVars, extVars>>
    \/ (\E t \in Tasks : HandleLookupL1(t)) /\ UNCHANGED <<cbVars, routeVars, extVars>>
    \/ (\E t \in Tasks : HandleLookupL2(t)) /\ UNCHANGED <<cbVars, routeVars, extVars>>
    \/ (\E t \in Tasks : HandleSendReturn(t))
            /\ UNCHANGED <<cacheVars, cbVars, routeVars, extVars>>
    \/ (\E b \in StoreTasks, t \in Tasks : RunStore(b, t)) /\ UNCHANGED <<cbVars, routeVars, extVars>>
    \/ (\E b \in BgTasks : RunPromote(b)) /\ UNCHANGED <<cbVars, routeVars, pipeVars, extVars>>
    \/ (\E b \in BgTasks : RunL2Set(b)) /\ UNCHANGED <<cbVars, routeVars, pipeVars, extVars>>

SpecSequential == InitPipeline /\ [][SequentialNext]_vars

\* A route that has started is polled until it returns, and the provider call
\* it awaits returns.
RouteStep(t) ==
    /\ \/ SelectProvider(t) \/ CallCheck(t) \/ CallPermit(t)
       \/ CallEnd(t) \/ RouteRecord(t) \/ Backoff(t)
    /\ UNCHANGED <<cacheVars, cbVars, pipeVars, extVars>>

\* route under a fair scheduler: every started call of route keeps being polled.
\* The clock advances at most MaxFairTime while the calls run.
FairRouteNext ==
    \/ (\E t \in Tasks : RouteStart(t)) /\ UNCHANGED <<cacheVars, cbVars, pipeVars, extVars>>
    \/ (\E t \in Tasks : SelectProvider(t)) /\ UNCHANGED <<cacheVars, cbVars, pipeVars, extVars>>
    \/ (\E t \in Tasks : CallCheck(t)) /\ UNCHANGED <<cacheVars, cbVars, pipeVars, extVars>>
    \/ (\E t \in Tasks : CallPermit(t)) /\ UNCHANGED <<cacheVars, cbVars, pipeVars, extVars>>
    \/ (\E t \in Tasks : CallEnd(t)) /\ UNCHANGED <<cacheVars, cbVars, pipeVars, extVars>>
    \/ (\E t \in Tasks : RouteRecord(t)) /\ UNCHANGED <<cacheVars, cbVars, pipeVars, extVars>>
    \/ (\E t \in Tasks : Backoff(t)) /\ UNCHANGED <<cacheVars, cbVars, pipeVars, extVars>>
    \/ (now < MaxFairTime /\ Tick) /\ UNCHANGED <<cacheVars, routeVars, pipeVars, extVars>>

FairSpecRoute ==
    InitRoute /\ [][FairRouteNext]_vars /\ \A t \in Tasks : WF_vars(RouteStep(t))

InitWarm == WarmInit /\ CBIdle /\ RouteIdle /\ PipeIdle /\ ExtIdle

\* The promotions lookup spawns for the request
PromoteTasks == {b \in BgTasks : b.kind = "promote" /\ b.key = WarmKey}

WarmNext ==
    \/ (\E t \in Tasks : LookupL1(t, WarmReq)) /\ UNCHANGED <<cbVars, routeVars, pipeVars, extVars>>
    \/ (\E t \in Tasks : LookupL2(t)) /\ UNCHANGED <<cbVars, routeVars, pipeVars, extVars>>
    \/ (\E b \in PromoteTasks : RunPromote(b)) /\ UNCHANGED <<cbVars, routeVars, pipeVars, extVars>>
    \/ (\E t \in Tasks, r \in Resps : Store(t, WarmReq, r)) /\ UNCHANGED <<cbVars, routeVars, pipeVars, extVars>>
    \/ (\E b \in BgTasks : RunL2Set(b)) /\ UNCHANGED <<cbVars, routeVars, pipeVars, extVars>>
    \/ (\E t \in Tasks : InvalidateL1(t, WarmReq)) /\ UNCHANGED <<cbVars, routeVars, pipeVars, extVars>>
    \/ (\E t \in Tasks : InvalidateL2(t)) /\ UNCHANGED <<cbVars, routeVars, pipeVars, extVars>>
    \/ L1Evict(WarmKey) /\ UNCHANGED <<cbVars, routeVars, pipeVars, extVars>>
    \/ L2Expire(prefixed_key(WarmKey)) /\ UNCHANGED <<cbVars, routeVars, pipeVars, extVars>>

SpecWarm == InitWarm /\ [][WarmNext]_vars

\* The cache on a runtime that runs every spawned promotion in the end.
FairSpecWarm ==
    SpecWarm /\ \A b \in PromoteTasks :
                   WF_vars(RunPromote(b) /\ UNCHANGED <<cbVars, routeVars, pipeVars, extVars>>)

\* The routing engine in service: any strategy, several sets of enabled
\* providers, providers with a past; the requests are routed within one tick
\* of the clock.
InitServing == CacheIdle /\ CBIdle /\ ServingInit /\ PipeIdle /\ ExtIdle

ServingNext ==
    \/ (\E t \in Tasks : RouteStart(t)) /\ UNCHANGED <<cacheVars, cbVars, pipeVars, extVars>>
    \/ (\E t \in Tasks : SelectProvider(t)) /\ UNCHANGED <<cacheVars, cbVars, pipeVars, extVars>>
    \/ (\E t \in Tasks : CallCheck(t)) /\ UNCHANGED <<cacheVars, cbVars, pipeVars, extVars>>
    \/ (\E t \in Tasks : CallPermit(t)) /\ UNCHANGED <<cacheVars, cbVars, pipeVars, extVars>>
    \/ (\E t \in Tasks : CallEnd(t)) /\ UNCHANGED <<cacheVars, cbVars, pipeVars, extVars>>
    \/ (\E t \in Tasks : RouteRecord(t)) /\ UNCHANGED <<cacheVars, cbVars, pipeVars, extVars>>
    \/ (\E t \in Tasks : Backoff(t)) /\ UNCHANGED <<cacheVars, cbVars, pipeVars, extVars>>

SpecServing == InitServing /\ [][ServingNext]_vars

\* The provider clients called directly, as LLMProvider::complete does.
ProviderNext ==
    \/ (\E t \in Tasks, c \in Clients : SendRequest(t, c))
            /\ UNCHANGED <<cacheVars, cbVars, routeVars, pipeVars, notProv>>
    \/ (\E t \in Tasks : HttpAttempt(t))
            /\ UNCHANGED <<cacheVars, cbVars, routeVars, pipeVars, notProv>>
    \/ (\E t \in Tasks : Exhausted(t))
            /\ UNCHANGED <<cacheVars, cbVars, routeVars, pipeVars, notProv>>

InitProvider == CacheIdle /\ CBIdle /\ RouteIdle /\ PipeIdle /\ ProvInit /\ NotProvIdle

SpecProvider == InitProvider /\ [][ProviderNext]_vars

\* The routing engine whose attempts are calls of a provider client.
ClientNext ==
    \/ (\E t \in Tasks : RouteStart(t)) /\ UNCHANGED <<cacheVars, cbVars, pipeVars, extVars>>
    \/ (\E t \in Tasks : SelectProvider(t)) /\ UNCHANGED <<cacheVars, cbVars, pipeVars, extVars>>
    \/ (\E t \in Tasks : CallCheck(t)) /\ UNCHANGED <<cacheVars, cbVars, pipeVars, extVars>>
    \/ (\E t \in Tasks : CallPermit(t)) /\ UNCHANGED <<cacheVars, cbVars, pipeVars, extVars>>
    \/ (\E t \in Tasks : ClosureStart(t)) /\ UNCHANGED <<cacheVars, cbVars, routeVars, pipeVars, notProv>>
    \/ (\E t \in Tasks : HttpAttempt(t)) /\ UNCHANGED <<cacheVars, cbVars, routeVars, pipeVars, notProv>>
    \/ (\E t \in Tasks : Exhausted(t)) /\ UNCHANGED <<cacheVars, cbVars, routeVars, pipeVars, notProv>>
    \/ (\E t \in Tasks : ClosureEnd(t)) /\ UNCHANGED <<cacheVars, cbVars, pipeVars, notProv>>
    \/ (\E t \in Tasks : RouteRecord(t)) /\ UNCHANGED <<cacheVars, cbVars, pipeVars, extVars>>
    \/ (\E t \in Tasks : Backoff(t)) /\ UNCHANGED <<cacheVars, cbVars, pipeVars, extVars>>

InitClient ==
    CacheIdle /\ CBIdle /\ ClientRouteInit /\ PipeIdle /\ ProvInit /\ NotProvIdle /\ client_max_retries <= 1

SpecClient == InitClient /\ [][ClientNext]_vars

\* L2Cache::get under a clock, against a Redis that answers, fails or is silent.
GetNext ==
    \/ (\E t \in Tasks : GetStart(t))
            /\ UNCHANGED <<cacheVars, cbVars, routeVars, pipeVars, notGet>>
    \/ (\E t \in Tasks : Connect(t))
            /\ UNCHANGED <<cacheVars, cbVars, routeVars, pipeVars, notGet>>
    \/ (\E t \in Tasks : Reply(t))
            /\ UNCHANGED <<cacheVars, cbVars, routeVars, pipeVars, notGet>>
    \/ (\E t \in Tasks : Elapsed(t))
            /\ UNCHANGED <<cacheVars, cbVars, routeVars, pipeVars, notGet>>
    \/ Advance /\ UNCHANGED <<cacheVars, cbVars, routeVars, pipeVars, notGet>>

InitGet == CacheIdle /\ CBIdle /\ RouteIdle /\ PipeIdle /\ NotGetIdle /\ GetInit

SpecGet == InitGet /\ [][GetNext]_vars

\* The cache of a manager whose construction is followed.
InitFailSoft == FailSoftInit /\ CBIdle /\ RouteIdle /\ PipeIdle /\ NotInitIdle

SpecFailSoft == InitFailSoft /\ [][CacheNext]_vars

\* is_healthy called on a record while time passes.
HealthNext ==
    \/ CheckHealth /\ UNCHANGED <<cacheVars, cbVars, routeVars, pipeVars, notHealth>>
    \/ Tick /\ UNCHANGED <<cacheVars, routeVars, pipeVars, extVars>>

InitHealth == CacheIdle /\ CBIdle /\ RouteIdle /\ PipeIdle /\ NotHealthIdle /\ HealthInit

SpecHealth == InitHealth /\ [][HealthNext]_vars

\* The cache keys of two requests.
KeyNext ==
    \/ GenerateKeys /\ UNCHANGED <<cacheVars, cbVars, routeVars, pipeVars, notKey>>

InitKey == CacheIdle /\ CBIdle /\ RouteIdle /\ PipeIdle /\ NotKeyIdle /\ KeyInit

SpecKey == InitKey /\ [][KeyNext]_vars

\* The cache keys of two requests whose text may hold the separators.
TextNext ==
    \/ GenerateKeys /\ UNCHANGED <<cacheVars, cbVars, routeVars, pipeVars, notKey>>
    \/ GenerateChatKeys /\ UNCHANGED <<cacheVars, cbVars, routeVars, pipeVars, notKey>>

InitText == CacheIdle /\ CBIdle /\ RouteIdle /\ PipeIdle /\ NotKeyIdle /\ TextInit

SpecText == InitText /\ [][TextNext]_vars

\* Stores on a cache whose L2 is reachable: every write-behind succeeds, and
\* nothing is looked up, invalidated, cleared, evicted or expired.
InitStores == CacheInit /\ has_l2 = TRUE /\ CBIdle /\ RouteIdle /\ PipeIdle /\ ExtIdle

StoresNext ==
    \/ (\E t \in Tasks, q \in Reqs, r \in Resps : Store(t, q, r)) /\ UNCHANGED <<cbVars, routeVars, pipeVars, extVars>>
    \/ (\E b \in BgTasks : RunL2SetResult(b, TRUE)) /\ UNCHANGED <<cbVars, routeVars, pipeVars, extVars>>

SpecStores == InitStores /\ [][StoresNext]_vars

\* No lookup is between its L1 read and its L2 read.
LookupsReturned == \A u \in Tasks : pc[u] = "idle"

\* Lookups and stores of one request on a warm L2, where a store starts only
\* when every lookup has returned: a promotion that runs after a store was
\* spawned by an L2 read that came before that store.
InitRace == WarmInit /\ CBIdle /\ RouteIdle /\ PipeIdle /\ ExtIdle

RaceNext ==
    \/ (\E t \in Tasks : LookupL1(t, WarmReq)) /\ UNCHANGED <<cbVars, routeVars, pipeVars, extVars>>
    \/ (\E t \in Tasks : LookupL2(t)) /\ UNCHANGED <<cbVars, routeVars, pipeVars, extVars>>
    \/ (\E b \in PromoteTasks : RunPromote(b)) /\ UNCHANGED <<cbVars, routeVars, pipeVars, extVars>>
    \/ (\E t \in Tasks, r \in Resps : LookupsReturned /\ Store(t, WarmReq, r)) /\ UNCHANGED <<cbVars, routeVars, pipeVars, extVars>>
    \/ (\E b \in BgTasks : RunL2Set(b)) /\ UNCHANGED <<cbVars, routeVars, pipeVars, extVars>>

SpecRace == InitRace /\ [][RaceNext]_vars

\* Threads that call record_failure and state on one breaker, and the clock.
AtomNext ==
    \/ (\E t \in Tasks : FailureAdd(t)) /\ UNCHANGED <<cacheVars, routeVars, pipeVars, notAtom>>
    \/ (\E t \in Tasks : FailureStore(t)) /\ UNCHANGED <<cacheVars, routeVars, pipeVars, notAtom>>
    \/ (\E t \in Tasks : FailureStamp(t)) /\ UNCHANGED <<cacheVars, routeVars, pipeVars, notAtom>>
    \/ (\E t \in Tasks : StateLoad(t)) /\ UNCHANGED <<cacheVars, routeVars, pipeVars, notAtom>>
    \/ (\E t \in Tasks : StateLock(t)) /\ UNCHANGED <<cacheVars, routeVars, pipeVars, notAtom>>
    \/ (now < MaxRouteTime /\ Tick) /\ UNCHANGED <<cacheVars, routeVars, pipeVars, extVars>>

InitAtom == CacheIdle /\ CBInit /\ RouteIdle /\ PipeIdle /\ NotAtomIdle /\ AtomInit

SpecAtom == InitAtom /\ [][AtomNext]_vars

\* The cache with the calls of the L1 tier written down as they are made.
MetricsNext ==
    \/ (\E t \in Tasks, q \in Reqs : LookupL1(t, q) /\ calls' = Append(calls, GetKind(q)))
            /\ UNCHANGED <<cbVars, routeVars, pipeVars, notCalls>>
    \/ (\E t \in Tasks : LookupL2(t)) /\ UNCHANGED <<cbVars, routeVars, pipeVars, extVars>>
    \/ (\E b \in BgTasks : RunPromote(b) /\ calls' = Append(calls, "promote"))
            /\ UNCHANGED <<cbVars, routeVars, pipeVars, notCalls>>
    \/ (\E t \in Tasks, q \in Reqs, r \in Resps : Store(t, q, r) /\ calls' = Append(calls, "store"))
            /\ UNCHANGED <<cbVars, routeVars, pipeVars, notCalls>>
    \/ (\E b \in BgTasks : RunL2Set(b)) /\ UNCHANGED <<cbVars, routeVars, pipeVars, extVars>>
    \/ (\E t \in Tasks, q \in Reqs : InvalidateL1(t, q)) /\ UNCHANGED <<cbVars, routeVars, pipeVars, extVars>>
    \/ (\E t \in Tasks : InvalidateL2(t)) /\ UNCHANGED <<cbVars, routeVars, pipeVars, extVars>>
    \/ (\E t \in Tasks : ClearL1(t)) /\ UNCHANGED <<cbVars, routeVars, pipeVars, extVars>>
    \/ (\E t \in Tasks : ClearL2(t)) /\ UNCHANGED <<cbVars, routeVars, pipeVars, extVars>>
    \/ (\E k \in Keys : L1Evict(k)) /\ UNCHANGED <<cbVars, routeVars, pipeVars, extVars>>
    \/ (\E rk \in RedisKeys : L2Expire(rk)) /\ UNCHANGED <<cbVars, routeVars, pipeVars, extVars>>

InitMetrics == CacheInit /\ CBIdle /\ RouteIdle /\ PipeIdle /\ NotCallsIdle /\ CallsInit

SpecMetrics == InitMetrics /\ [][MetricsNext]_vars

(***************************************************************************)
(* Claims about the cache, checked under SpecCache.                        *)
(***************************************************************************)
IsHit(r) == r.op = "lookup" /\ r.res \in {"L1Hit", "L2Hit"}

\* C1 (as stated): once store(req, r) has returned, a lookup(req) issued next by
\* the same task, with no invalidate, clear, eviction or expiry in between,
\* returns L1Hit carrying r.
C1_StoreThenLookup ==
    \A t \in Tasks :
        (ret[t].op = "lookup" /\ exp[t].after_store /\ ~exp[t].removed)
            => (ret[t].res = "L1Hit" /\ ret[t].val = exp[t].value)

\* C1 (amended): the same, provided also that no other write to L1 for the
\* same cache key (a store by another task, or an L1 promotion task running)
\* took effect between the store and the lookup.
C1_StoreThenLookupUndisturbed ==
    \A t \in Tasks :
        (ret[t].op = "lookup" /\ exp[t].after_store /\ ~exp[t].removed
            /\ ~exp[t].overwritten)
            => (ret[t].res = "L1Hit" /\ ret[t].val = exp[t].value)

C1_Witness ==
    \E t \in Tasks :
        /\ has_l2
        /\ ret[t].op = "lookup" /\ exp[t].after_store
        /\ ~exp[t].removed /\ ~exp[t].overwritten
        /\ ret[t].res = "L1Hit" /\ ret[t].val = exp[t].value

\* C2: after invalidate(req) has returned (its L2 removal having succeeded), the
\* next lookup(req) returns Miss, provided no store for that key was called
\* after the invalidate began; also when a write-behind or a promotion for the
\* key was still pending.
C2_InvalidateThenMiss ==
    \A t \in Tasks :
        (ret[t].op = "lookup" /\ exp[t].after_inv) => ret[t].res = "Miss"

\* C3: a lookup(req) that returns L1Hit(r) or L2Hit(r) returns a response that
\* was passed to some store(req2, r) with the cache key of req2 equal to that of
\* req.
C3_HitWasStoredForKey ==
    \A t \in Tasks :
        IsHit(ret[t]) => <<generate_cache_key(ret[t].req), ret[t].val>> \in stored

C3_Witness ==
    \E t \in Tasks, u \in Tasks :
        /\ t # u
        /\ ret[t].op = "lookup" /\ ret[t].res = "L2Hit"
        /\ ret[u].op = "store" /\ ret[u].req # ret[t].req

(***************************************************************************)
(* Claims about CircuitBreaker, checked under SpecCB.                      *)
(***************************************************************************)
HalfOpenSuccess == 2    \* LLMCircuitBreakerConfig::default().success_threshold

\* C6: a circuit in HalfOpen is Closed, with its failure counter at zero, once
\* half_open_success (2) consecutive successes have been recorded in HalfOpen,
\* and is still HalfOpen after fewer.
C6_HalfOpenClosesAfterS ==
    last_op = "success" =>
        /\ ho_succ = HalfOpenSuccess => (state = "Closed" /\ failure_count = 0)
        /\ ho_succ \in 1..(HalfOpenSuccess - 1) => state = "HalfOpen"

\* C7 (as stated): from Open the circuit goes nowhere but to HalfOpen, by the
\* clock alone, when the timeout has elapsed since it opened; a success or a
\* failure recorded while Open changes nothing.
C7_OpenLeftByClockOnly ==
    [][state = "Open" =>
        /\ last_op' \in {"success", "failure"} => state' = "Open"
        /\ last_op' = "tick" =>
              state' = IF elapsed(opened_at)' > timeout THEN "HalfOpen" ELSE "Open"
      ]_vars

\* C7 (amended): while Open, a recorded failure keeps the circuit Open and
\* restarts the timer; a recorded success keeps it Open unless it is the third
\* consecutive success, which closes it; the clock moves it to HalfOpen exactly
\* when the timeout has elapsed since the last recorded failure.
C7_OpenLeftByClockOrThreeSuccesses ==
    [][state = "Open" =>
        /\ last_op' = "failure" =>
              (state' = "Open" /\ last_failure_time' = now)
        /\ last_op' = "success" =>
              state' = IF success_count + 1 >= SuccessesToReset
                       THEN "Closed" ELSE "Open"
        /\ last_op' = "tick" =>
              state' = IF elapsed(last_failure_time)' > timeout
                       THEN "HalfOpen" ELSE "Open"
      ]_vars

C7_Witness ==
    /\ last_op = "tick" /\ state = "HalfOpen"
    /\ opened_at # Absent /\ last_failure_time > opened_at
    /\ success_count = 2

\* C8: a failure recorded while HalfOpen leaves the circuit Open with the timer
\* restarted at that failure, and the circuit is never HalfOpen again before a
\* full timeout has elapsed since that failure.
C8_HalfOpenFailureReopens ==
    /\ [][(state = "HalfOpen" /\ last_op' = "failure") =>
            (state' = "Open" /\ last_failure_time' = now)]_vars
    /\ []((state = "HalfOpen" /\ last_ho_failure # Absent) =>
            elapsed(last_ho_failure) > timeout)

C8_Witness ==
    /\ state = "HalfOpen" /\ last_ho_failure # Absent
    /\ timeout > 0 /\ last_op = "tick"
    /\ elapsed(last_ho_failure) = timeout + 1

(***************************************************************************)
(* Claims about LLMCircuitBreaker, checked under SpecBreaker.              *)
(***************************************************************************)
\* C5: a breaker with failure threshold F that starts Closed is Open after
\* exactly F consecutive failed calls, no sooner; and a call made while it is
\* Open returns the Open error and the wrapped provider call is not invoked.
C5_OpensAtThresholdAndRejects ==
    /\ [](\A p \in ProviderIds :
            streak[p] >= cb_config.failure_threshold => breakers[p].state # "Closed")
    /\ [][\A p \in ProviderIds :
            (breakers[p].state = "Closed" /\ breakers[p]' # breakers[p]) =>
                IF streak'[p] = cb_config.failure_threshold
                THEN breakers'[p].state = "Open" /\ is_open(breakers[p])'
                ELSE breakers'[p].state = "Closed"]_vars
    /\ [][\A t \in Tasks :
            invocations'[t] > invocations[t] => ~is_open(breakers[selected[t]])]_vars
    /\ [][\A t \in Tasks :
            (rpc[t] = "call" /\ rpc'[t] # "call" /\ is_open(breakers[selected[t]])) =>
                (call_result'[t] = "Open" /\ invocations'[t] = invocations[t])]_vars

C5_Witness ==
    \E t \in Tasks :
        /\ cb_config.failure_threshold = 3
        /\ streak["p1"] = 3 /\ is_open(breakers["p1"])
        /\ rpc[t] = "idle" /\ call_result[t] = "Open" /\ invocations[t] = 0

\* C9: while a provider's circuit is HalfOpen, at most one call admitted in
\* HalfOpen is in flight to that provider.
C9_OneProbeInHalfOpen ==
    \A p \in ProviderIds :
        Cardinality({t \in Tasks : rpc[t] = "inflight" /\ probe[t] /\ selected[t] = p}) <= 1

(***************************************************************************)
(* Claims about RoutingEngine::route, checked under FairSpecRoute.         *)
(***************************************************************************)
\* C10: route returns, having invoked a provider at most max_retries times; it
\* returns Ok at the first successful attempt and attempts nothing after it;
\* it returns AllProvidersFailed only when max_retries attempts have failed.
C10_RouteBounded ==
    /\ [](\A t \in Tasks :
            /\ attempt[t] <= max_retries
            /\ invocations[t] <= max_retries
            /\ route_result[t] = "AllProvidersFailed" =>
                    (attempt[t] = max_retries /\ failed[t] = max_retries)
            /\ route_result[t] = "Ok" =>
                    (rpc[t] = "idle" /\ call_result[t] = "Ok" /\ failed[t] = attempt[t]))
    /\ [][\A t \in Tasks :
            (rpc[t] = "record" /\ call_result[t] = "Ok" /\ rpc'[t] # "record") =>
                (rpc'[t] = "idle" /\ route_result'[t] = "Ok"
                    /\ invocations'[t] = invocations[t])]_vars
    /\ \A t \in Tasks : (rpc[t] # "idle") ~> (rpc[t] = "idle" /\ route_result[t] # "none")

C10_Witness ==
    \E t \in Tasks, u \in Tasks :
        /\ max_retries = 2
        /\ route_result[t] = "AllProvidersFailed" /\ invocations[t] = 2
        /\ route_result[u] = "Ok" /\ failed[u] = 1 /\ invocations[u] = 2

(***************************************************************************)
(* Claims about handle_chat_completions, checked under SpecPipeline.       *)
(***************************************************************************)
\* C4: when the cache lookup of a request returned L1Hit or L2Hit, the handler
\* answers with cached = true and the tier of the hit, and for that request
\* provider.send is never called and no cache store is spawned.
C4_HitAnsweredFromCache ==
    \A t \in Tasks :
        hlookup[t] \in {"L1Hit", "L2Hit"} =>
            /\ hpc[t] = "idle"
            /\ hresp[t].status = "Ok" /\ hresp[t].cached
            /\ hresp[t].cache_tier = (IF hlookup[t] = "L1Hit" THEN "l1" ELSE "l2")
            /\ sends[t] = 0 /\ store_spawns[t] = 0

C4_Witness ==
    \E t \in Tasks, u \in Tasks :
        /\ hlookup[t] = "L2Hit" /\ hresp[t].cache_tier = "l2" /\ sends[t] = 0
        /\ hlookup[u] = "Miss" /\ store_spawns[u] = 1 /\ ~hresp[u].cached

(***************************************************************************)
(* Claims about the strategies and the retries of the routing engine.      *)
(***************************************************************************)
\* The task's route has selected a provider and its attempt is under way.
Attempting(t) == in_route[t] /\ rpc[t] \in {"call", "permit", "inflight", "record"}

\* C11 (as stated): under the failover chain, while the preferred provider fails
\* every call, the attempts go to it until it has failed failure_threshold
\* times and its circuit is Open; only then does an attempt go to the next
\* provider, so the preferred provider is invoked exactly failure_threshold times.
C11_FailoverAfterCircuitOpens ==
    \A t \in Tasks :
        (/\ strategy = "failover-chain"
         /\ Attempting(t)
         /\ selected[t] = "p1"
         /\ health_metrics["p2"].successful_requests = 0)
        => /\ breakers["p2"].state = "Open"
           /\ health_metrics["p2"].failed_requests = cb_config.failure_threshold

\* The task's route has returned an error.
RouteFailed(t) ==
    in_route[t] /\ rpc[t] = "idle" /\ route_result[t] \notin {"none", "Ok"}

\* C12 (as stated): when a single provider is enabled and fails on every
\* attempt of a route that is the engine's only traffic, the route invokes it
\* max_retries times and sleeps backoff_duration(0), backoff_duration(1), ...
\* between the attempts (100, 200 and 250 ms for max_retries = 4, initial
\* backoff 100 ms, multiplier 2 and maximum backoff 250 ms).
C12_RetriesWithBackoff ==
    \A t \in Tasks :
        (/\ RouteFailed(t)
         /\ \A p \in ProviderIds : enabled[p] <=> p = "p1"
         /\ health_metrics["p1"].total_requests = invocations[t]
         /\ health_metrics["p1"].successful_requests = 0)
        => /\ invocations[t] = max_retries
           /\ sleeps[t] = [k \in 1..(max_retries - 1) |-> backoff_duration(k - 1)]

\* The providers that are enabled, healthy and whose circuit is not Open
EligibleIds ==
    {p \in ProviderIds :
        enabled[p] /\ is_healthy(health_metrics[p]) /\ ~is_open(breakers[p])}

\* C13: whatever the strategy, a selection returns a provider that is enabled,
\* healthy and whose circuit is not Open, and it returns None exactly when
\* there is no such provider; route then returns NoProvidersAvailable.
C13_SelectsEligibleOrNone ==
    [][\A t \in Tasks :
        (rpc[t] = "select" /\ rpc'[t] # "select")
        => IF EligibleIds = {}
           THEN rpc'[t] = "idle" /\ route_result'[t] = "NoProvidersAvailable"
           ELSE /\ rpc'[t] = "call"
                /\ selected'[t] \in EligibleIds
                /\ route_result'[t] = "none"]_vars

\* One route was refused for want of an eligible provider; the failover chain
\* gave the other route p3 because the circuit of p2, which comes first, is Open.
C13_Witness ==
    \E t, u \in Tasks :
        /\ strategy = "failover-chain"
        /\ route_result[t] = "NoProvidersAvailable"
        /\ Attempting(u)
        /\ selected[u] = "p3"
        /\ enabled["p2"] /\ breakers["p2"].state = "Open"

\* The selections i .. i + n - 1 of rr_window were all made among the same n
\* eligible providers.
SteadyWindow(i, n) ==
    /\ i + n - 1 <= Len(rr_window)
    /\ Len(rr_window[i].among) = n
    /\ \A j \in i..(i + n - 1) : rr_window[j].among = rr_window[i].among

\* How often provider p was returned by the selections i .. i + n - 1
TimesIn(p, i, n) == Cardinality({j \in i..(i + n - 1) : rr_window[j].id = p})

\* C14: any N consecutive round-robin selections made among the same N eligible
\* providers return each of them exactly once, whether the selections are made
\* by one caller or by concurrent callers (whose counts then deviate by less
\* than one).
C14_RoundRobinWindow ==
    \A n \in 1..Len(providers), i \in 1..Len(providers) :
        SteadyWindow(i, n)
        => \A k \in 1..n : TimesIn(rr_window[i].among[k], i, n) = 1

\* Three selections among all three providers, made by two callers at work at
\* the same time.
C14_Witness ==
    /\ SteadyWindow(1, 3)
    /\ \E j, k \in 1..3 : rr_window[j].by # rr_window[k].by
    /\ \A t \in Tasks : rpc[t] # "idle"

\* The place in the configured list of the eligible provider that has the
\* smallest priority and, among those of that priority, comes first.
FirstOfSmallestPriority ==
    CHOOSE i \in 1..Len(providers) :
        /\ providers[i].id \in EligibleIds
        /\ \A j \in 1..Len(providers) :
             providers[j].id \in EligibleIds
             => \/ providers[j].priority > providers[i].priority
                \/ providers[j].priority = providers[i].priority /\ i <= j

\* C15: the failover chain returns the eligible provider of the smallest
\* priority value and, when several eligible providers have that priority, the
\* one that comes first in the configured list.
C15_FailoverSmallestPriorityFirst ==
    [][\A t \in Tasks :
        (/\ strategy = "failover-chain"
         /\ rpc[t] = "select" /\ rpc'[t] = "call")
        => selected'[t] = providers[FirstOfSmallestPriority].id]_vars

\* p2 and p3 are eligible and share the smallest priority; the route was given
\* p2, which comes first.
C15_Witness ==
    \E t \in Tasks :
        /\ strategy = "failover-chain"
        /\ in_route[t] /\ rpc[t] = "call"
        /\ selected[t] = "p2"
        /\ {"p2", "p3"} \subseteq EligibleIds

(***************************************************************************)
(* Claims about the order of the tiers in lookup, checked under SpecCache. *)
(***************************************************************************)
\* C16: lookup(req) reads L1 first; when L1 holds an entry for the key it
\* returns L1Hit with that entry and does not query L2; L2 is queried only by a
\* lookup that missed L1 and only when an L2 is configured; an L1 miss without
\* L2 is a Miss.
C16_L1BeforeL2 ==
    [][\A t \in Tasks :
        /\ \A q \in Reqs :
             LookupL1(t, q)
             => LET cache_key == generate_cache_key(q) IN
                IF l1[cache_key] # None
                THEN /\ ret'[t] = Result("lookup", q, "L1Hit", l1[cache_key])
                     /\ pc'[t] = "idle"
                ELSE IF has_l2
                THEN pc'[t] = "lookup_l2" /\ arg'[t] = q
                ELSE /\ ret'[t] = Result("lookup", q, "Miss", None)
                     /\ pc'[t] = "idle"
        /\ (pc[t] # "lookup_l2" /\ pc'[t] = "lookup_l2")
           => /\ has_l2
              /\ l1[generate_cache_key(arg'[t])] = None]_vars

\* With an L2 configured, one lookup was answered by L1 and another, having
\* missed L1, is querying L2.
C16_Witness ==
    \E t, u \in Tasks :
        /\ has_l2
        /\ ret[t].op = "lookup" /\ ret[t].res = "L1Hit"
        /\ pc[u] = "lookup_l2"

(***************************************************************************)
(* Claims about the request pipeline and its cache, under SpecPipeline.    *)
(***************************************************************************)
\* What the handler does with a request whose lookup was a Miss: it goes to
\* the provider, or answers InternalError when no provider is configured.
ContinuesAsMiss(t) ==
    /\ hlookup'[t] = "Miss"
    /\ IF select_provider(hreq[t]) = "none"
       THEN hpc'[t] = "idle" /\ hresp'[t] = ErrorResponse("InternalError")
       ELSE /\ hpc'[t] = "send"
            /\ hprovider'[t] = select_provider(hreq[t])
            /\ sends'[t] = sends[t] + 1

\* C17: the L2 query of a lookup always returns a result, L2Hit or Miss; when
\* the L2 get fails (error or timeout) the result is Miss, and the request goes
\* on as for a Miss: to the provider.
C17_L2FailureIsMiss ==
    [][\A t \in Tasks :
        (pc[t] = "lookup_l2" /\ pc'[t] = "idle")
        => /\ ret'[t].op = "lookup"
           /\ ret'[t].res \in {"L2Hit", "Miss"}
           /\ exp'[t].l2_failed => ret'[t].res = "Miss"
           /\ ret'[t].res = "Miss" => ContinuesAsMiss(t)]_vars

\* The L2 get failed although Redis holds a value for the key; the request is
\* with the provider.
C17_Witness ==
    \E t \in Tasks :
        /\ exp[t].l2_failed
        /\ hlookup[t] = "Miss"
        /\ hpc[t] = "send"
        /\ l2[prefixed_key(generate_cache_key(convert_to_cacheable(hreq[t])))] # NoJson

(***************************************************************************)
(* Claims about the promotion of L2 hits, checked under FairSpecWarm.      *)
(***************************************************************************)
\* The lookup the task has made follows its own L2 hit for the same request,
\* the promotion of that hit has run, and the entry it wrote was not removed.
AfterPromotion(t) ==
    /\ ret[t].op = "lookup"
    /\ exp[t].after_l2hit /\ exp[t].promoted /\ ~exp[t].removed

\* C18 (as stated): once the promotion of an L2 hit has run, the task's next
\* lookup of the request returns L1Hit with the value L2 returned, absent
\* invalidate, eviction or expiry.
C18_PromotedThenL1Hit ==
    \A t \in Tasks :
        AfterPromotion(t) => (ret[t].res = "L1Hit" /\ ret[t].val = exp[t].value)

\* C18 (amended): when the L2 query of a lookup returns a value v, lookup
\* returns L2Hit(v) with L1 as it was and the promotion spawned; every spawned
\* promotion runs in the end and writes its value into L1; once it has run, the
\* task's next lookup of the request returns L1Hit(v), absent invalidate,
\* eviction, expiry and any other write of the key to L1.
C18_PromotedThenL1HitUndisturbed ==
    /\ [](\A t \in Tasks :
            (AfterPromotion(t) /\ ~exp[t].overwritten)
            => (ret[t].res = "L1Hit" /\ ret[t].val = exp[t].value))
    /\ [][\A t \in Tasks :
            (pc[t] = "lookup_l2" /\ pc'[t] = "idle" /\ ret'[t].res = "L2Hit")
            => LET cache_key == generate_cache_key(arg[t])
                   v == from_json(l2[prefixed_key(cache_key)]) IN
               /\ ret'[t] = Result("lookup", arg[t], "L2Hit", v)
               /\ l1' = l1
               /\ spawned' = Spawn([kind |-> "promote", key |-> cache_key, value |-> v])]_vars
    /\ [][\A b \in PromoteTasks :
            CopiesIn(b, spawned') < CopiesIn(b, spawned) => l1'[b.key] = b.value]_vars
    /\ \A b \in PromoteTasks : BagIn(b, spawned) ~> ~BagIn(b, spawned)

\* An L2 hit, its promotion, and then the L1 hit with the promoted value.
C18_Witness ==
    \E t \in Tasks :
        /\ AfterPromotion(t) /\ ~exp[t].overwritten
        /\ ret[t].res = "L1Hit" /\ ret[t].val = exp[t].value

\* The handler has returned its answer to the task's request.
Answered(t) == hpc[t] = "idle" /\ hresp[t].status # "none"

\* C19 (as stated): a request that arrives after an identical request was
\* answered by the provider (cached = false) is answered from L1 with
\* cached = true, cache_tier l1 and the same content, without a provider call.
C19_SecondAnsweredFromL1 ==
    \A t \in Tasks :
        (hafter[t] # None /\ Answered(t))
        => /\ hresp[t] = build_response_from_cache(hafter[t], "l1")
           /\ sends[t] = 0

\* C20: the handler spawns the cache store only when the provider call has
\* returned Ok; when the call fails it returns ProviderError, spawns no store
\* and no other cache task, and no step of a handler writes L1 or L2, so the
\* request leaves both tiers as they were.
C20_StoreOnlyAfterSuccess ==
    /\ [][\A t \in Tasks :
            (hpc[t] = "send" /\ hpc'[t] = "idle")
            => IF hresp'[t].status = "Ok"
               THEN /\ ~hresp'[t].cached
                    /\ store_spawns'[t] = 1
                    /\ store_tasks' = store_tasks (+) SetToBag({
                          [request |-> convert_to_cacheable(hreq[t]),
                           response |-> hresp'[t].content]})
               ELSE /\ hresp'[t] = ErrorResponse("ProviderError")
                    /\ store_spawns'[t] = 0
                    /\ store_tasks' = store_tasks
                    /\ spawned' = spawned]_vars
    /\ [][BagCardinality(store_tasks') > BagCardinality(store_tasks)
            => \E t \in Tasks : hpc[t] = "send" /\ hresp'[t].status = "Ok"]_vars
    /\ [][(\E t \in Tasks : hpc'[t] # hpc[t]) => (l1' = l1 /\ l2' = l2)]_vars
    /\ [](\A t \in Tasks :
            (Answered(t) /\ hresp[t].status = "ProviderError")
            => (store_spawns[t] = 0 /\ sends[t] = 1))

\* The provider call of a request failed while L1 holds the answer to an
\* earlier request; nothing was stored for the failed request.
C20_Witness ==
    \E t \in Tasks :
        /\ Answered(t) /\ hresp[t].status = "ProviderError"
        /\ store_spawns[t] = 0
        /\ store_tasks = EmptyBag
        /\ \E k \in Keys : l1[k] # None
        /\ l1[generate_cache_key(convert_to_cacheable(hreq[t]))] = None

(***************************************************************************)
(* Claims about provider failures in the pipeline, under SpecPipeline.     *)
(***************************************************************************)
\* C21 (as stated): the handler answers a request with a provider failure only
\* when the retry budget is used up: max_retries provider attempts were made
\* for the request.
C21_ProviderErrorAfterRetries ==
    \A t \in Tasks :
        (Answered(t) /\ hresp[t].status = "ProviderError")
        => sends[t] = DefaultMaxRetries


(***************************************************************************)
(* Claims about the provider clients, under SpecClient and SpecProvider.   *)
(***************************************************************************)
\* C22 (as stated): an unauthorized answer (HTTP 401) is fatal for the request:
\* after it no further HTTP attempt is made for that request, neither by the
\* retry loop of send_request nor by RoutingEngine::route.
C22_UnauthorizedIsFatal == \A t \in Tasks : after_401[t] = 0

\* C23 (as stated): a send_request that has returned after an attempt ending in
\* a timeout, a 5xx answer or an unparsable body has made all its
\* max_retries + 1 HTTP attempts, and no send_request makes more than that.
C23_TransientIsRetried ==
    \A t \in Tasks :
        /\ http_attempts[t] <= client_max_retries + 1
        /\ (sr_pc[t] = "done" /\ sr_outcome[t] \in {"timeout", "500", "200-unparsable"})
           => http_attempts[t] = client_max_retries + 1


(***************************************************************************)
(* Claims about rejected attempts, under SpecServing.                      *)
(***************************************************************************)
\* An attempt of t was answered CircuitBreakerError::Open and route is about
\* to handle it.
RejectedOpen(t) == in_route[t] /\ rpc[t] = "record" /\ call_result[t] = "Open"

\* C24: when the breaker of the selected provider P rejects an attempt as Open,
\* no breaker and no health record changes, and when route handles the
\* rejection the attempt counter goes up by one while the health record and
\* the breaker of every provider other than P stay as they are.
C24_OpenRejectionFrame ==
    [][\A t \in Tasks :
         /\ (~RejectedOpen(t) /\ RejectedOpen(t)')
            => (breakers' = breakers /\ health_metrics' = health_metrics
                /\ attempt'[t] = attempt[t])
         /\ (RejectedOpen(t) /\ rpc'[t] # "record")
            => /\ attempt'[t] = attempt[t] + 1
               /\ \A q \in ProviderIds \ {selected[t]} :
                    /\ health_metrics'[q] = health_metrics[q]
                    /\ breakers'[q] = breakers[q]]_vars

\* A route has handled an Open rejection while another provider has a health
\* record that is not the initial one.
C24_Witness ==
    \E t \in Tasks :
        /\ in_route[t] /\ rpc[t] \in {"backoff", "idle"}
        /\ call_result[t] = "Open" /\ failed[t] >= 1
        /\ \E q \in ProviderIds \ {selected[t]} : health_metrics[q] # NewHealth


(***************************************************************************)
(* Claims about rejected requests, under SpecPipeline.                     *)
(***************************************************************************)
\* The request task t handed to the handler has an empty model, no messages or
\* stream = true.
Malformed(t) ==
    /\ hreq[t] \in ChatReqs
    /\ (hreq[t].model = <<>> \/ hreq[t].messages = <<>> \/ hreq[t].stream)

Fingerprint(t) == generate_cache_key(convert_to_cacheable(hreq[t]))

\* C26 (as stated): at most one provider call is outstanding per fingerprint.
C26_OneCallPerFingerprint ==
    \A t, u \in Tasks :
        (t # u /\ hpc[t] = "send" /\ hpc[u] = "send")
        => Fingerprint(t) # Fingerprint(u)

\* C26 (amended): the handler does not coalesce requests.  Every request makes
\* at most one provider call, its own, and only after its own lookup missed;
\* a request answered by a provider was answered by the call it made.
C26_OneCallPerRequest ==
    \A t \in Tasks :
        /\ sends[t] <= 1
        /\ hpc[t] = "send" => (sends[t] = 1 /\ hlookup[t] \notin {"L1Hit", "L2Hit"})
        /\ (Answered(t) /\ hresp[t].status = "Ok" /\ ~hresp[t].cached) => sends[t] = 1

\* Two requests with the same fingerprint have both missed the cache and both
\* wait for their own provider call.
C26_Witness ==
    \E t, u \in Tasks :
        /\ t # u /\ hpc[t] = "send" /\ hpc[u] = "send"
        /\ Fingerprint(t) = Fingerprint(u)
        /\ sends[t] = 1 /\ sends[u] = 1


(***************************************************************************)
(* Claims about the time of an L2 query, under SpecGet.                    *)
(***************************************************************************)
\* C27: a get that lookup started after an L1 miss has returned, or is still
\* within the operation timeout counted from the call, the opening of the
\* connection included; it returns no later than the timeout after the call.
C27_L2QueryBounded ==
    \A t \in Tasks :
        /\ Pending(t) => clock - g_start[t] <= OperationTimeout
        /\ g_pc[t] = "done" => g_end[t] - g_start[t] <= OperationTimeout

\* A get whose connection was never established returned Timeout exactly the
\* operation timeout after the call.
C27_Witness ==
    \E t \in Tasks :
        /\ g_pc[t] = "done" /\ g_res[t] = "Timeout" /\ g_conn[t] = 0
        /\ g_start[t] > 0
        /\ g_end[t] - g_start[t] = OperationTimeout


(***************************************************************************)
(* Claims about a failed L2 initialisation, under SpecFailSoft.            *)
(***************************************************************************)
\* C28: when the initialisation of L2 fails, with_l2 returns a manager without
\* L2, and that manager works on L1 alone: no call of it waits for Redis, none
\* spawns a write or a promotion, no lookup is answered from L2, and Redis
\* keeps what it held.
C28_FailedInitIsL1Only ==
    init_outcome \in InitFailures
    => /\ ~has_l2
       /\ spawned = EmptyBag
       /\ \A t \in Tasks : pc[t] = "idle" /\ ret[t].res # "L2Hit"
       /\ l2[prefixed_key(WarmKey)] \in {to_json("r1"), NoJson}
       /\ \A rk \in RedisKeys \ {prefixed_key(WarmKey)} : l2[rk] = NoJson

\* On a manager whose PING failed, a lookup of the request Redis holds a
\* response for has missed, and a store and an invalidate have returned.
C28_Witness ==
    /\ init_outcome = "ping error"
    /\ l2[prefixed_key(WarmKey)] = to_json("r1")
    /\ \E t \in Tasks : ret[t].op = "lookup" /\ ret[t].res = "Miss" /\ ret[t].req = WarmReq
    /\ \E k \in Keys : inv[k] = "done"
    /\ stored # {<<WarmKey, "r1">>}


(***************************************************************************)
(* Claims about ProviderHealth, under SpecHealth.                          *)
(***************************************************************************)
\* successes / total, and 1.0 when total = 0, as numerator and denominator
SuccessRate(h) ==
    IF h.total_requests = 0 THEN <<1, 1>>
    ELSE <<h.successful_requests, h.total_requests>>

Entries(params) == { params[i] : i \in 1..Len(params) }

\* PartialEq of CacheableRequest: the fields are equal, the maps as maps
ValueEqual(a, b) ==
    /\ a.model = b.model /\ a.prompt = b.prompt
    /\ a.temperature = b.temperature /\ a.max_tokens = b.max_tokens
    /\ Entries(a.parameters) = Entries(b.parameters)

\* C30: two requests that are equal in value, among them two that differ only
\* in the order in which their extra parameters were inserted, get the same
\* cache key.
C30_KeyOfValue ==
    (k_ret # <<>> /\ ValueEqual(k_a, k_b)) => k_ret[1] = k_ret[2]

\* The keys of two requests with the same two parameters in different orders
\* were computed.
C30_Witness ==
    /\ k_ret # <<>>
    /\ ValueEqual(k_a, k_b)
    /\ Len(k_a.parameters) = 2
    /\ k_a.parameters # k_b.parameters
    /\ k_ret[1] = k_ret[2]


(***************************************************************************)
(* Claims about requests that differ, under SpecText.                      *)
(***************************************************************************)
\* C31: two requests that differ in model or in prompt (in the pipeline: in
\* model or in their list of messages) never get the same cache key.
C31_DifferentRequestsDifferentKeys ==
    (/\ k_ret # <<>>
     /\ \/ k_a.model # k_b.model
        \/ "prompt" \in DOMAIN k_a /\ k_a.prompt # k_b.prompt
        \/ "messages" \in DOMAIN k_a /\ k_a.messages # k_b.messages)
        => k_ret[1] # k_ret[2]


(***************************************************************************)
(* Claims about runs of successes and failures of CircuitBreaker, under    *)
(* SpecCB.                                                                 *)
(***************************************************************************)
\* C32: after three record_success calls with no record_failure in between,
\* state() is Closed, whatever the state was before, Open before its timeout
\* has elapsed included.
C32_ThreeSuccessesClose ==
    succ_run >= SuccessesToReset => state = "Closed"

\* The third success has just been recorded on a breaker of threshold 1 whose
\* last failure, which opened it, is not older than the timeout.
C32_Witness ==
    /\ succ_run = SuccessesToReset /\ last_op = "success"
    /\ threshold = 1 /\ timeout > 0
    /\ last_failure_time # Absent /\ elapsed(last_failure_time) <= timeout
    /\ opened_at = last_failure_time
    /\ state = "Closed"


\* C33: a circuit leaves Closed only when failure_threshold failures occurred
\* consecutively, with no successful call between them; a success between
\* failures restarts the failure count.
C33_OpensOnConsecutiveFailuresOnly ==
    [][/\ (state = "Closed" /\ state' # "Closed") => fail_run' >= threshold
       /\ last_op' = "success" => failure_count' = 0]_vars


(***************************************************************************)
(* Claims about the health records of RoutingEngine, under SpecRoute.      *)
(***************************************************************************)
\* C34: every completed provider attempt, successful or failed, increments
\* total_requests and exactly one of successful_requests and failed_requests
\* of the attempted provider, updates that provider's moving-average latency
\* with smoothing factor 0.3 from the observed duration, and sets its
\* last_success or last_failure instant.
C34_EveryAttemptRecorded ==
    [][\A t \in Tasks :
        (rpc[t] = "record" /\ rpc'[t] # "record") =>
            LET p == selected[t]
                h == health_metrics[p]
                g == health_metrics'[p]
            IN  /\ g.total_requests = h.total_requests + 1
                /\ \/ /\ g.successful_requests = h.successful_requests + 1
                      /\ g.failed_requests = h.failed_requests
                      /\ g.last_success = now
                   \/ /\ g.failed_requests = h.failed_requests + 1
                      /\ g.successful_requests = h.successful_requests
                      /\ g.last_failure = now
                /\ g.avg_latency_ms = ema_latency(h.avg_latency_ms, latency_of[p])
      ]_vars


(***************************************************************************)
(* Claims about stores and their write-behind, under SpecStores.           *)
(***************************************************************************)
\* C35: after several store calls for the same fingerprint with different
\* responses, once all write-behind tasks have finished (L2 reachable, no
\* invalidate or expiry), L2 holds the same response as L1, namely the
\* response of the last store.
C35_TiersAgreeAfterWriteBehind ==
    spawned = EmptyBag =>
        \A t \in Tasks :
            (since[t].req # NoReq /\ ~since[t].overwritten) =>
                LET k == SinceKey(since[t]) IN
                /\ l1[k] = since[t].value
                /\ l2[prefixed_key(k)] = to_json(l1[k])


(***************************************************************************)
(* Claims about a promotion racing a store, under SpecRace.                *)
(***************************************************************************)
\* C36: an L1 promotion started by an L2 hit never replaces a value that store
\* wrote to L1 after that L2 read: once the promotion and the store have both
\* completed, L1 holds the stored value, not the older value read from L2.
C36_PromotionKeepsStoredValue ==
    [][\A b \in PromoteTasks :
        (BagIn(b, spawned) /\ spawned' = Unspawn(b)) =>
            \A t \in Tasks :
                (/\ since[t].req = WarmReq
                 /\ ~since[t].l2hit
                 /\ ~since[t].overwritten
                 /\ ~since[t].removed) => l1'[WarmKey] = since[t].value
      ]_vars


\* C37: no enabled provider is excluded from selection forever: from every
\* state in which a provider is not eligible because of recorded failures, the
\* state after its very first call failed included, it is eligible again once
\* its circuit's open timeout has elapsed since the last recorded failure.
C37_EligibleAgainAfterTimeout ==
    \A p \in ProviderIds :
        (/\ enabled[p]
         /\ health_metrics[p].last_failure # Absent
         /\ elapsed(health_metrics[p].last_failure) > cb_config.timeout)
            => (is_healthy(health_metrics[p]) /\ ~is_open(breakers[p]))


(***************************************************************************)
(* Claims about concurrent calls on CircuitBreaker, under SpecAtom.        *)
(***************************************************************************)
\* C38: with record_failure and state running concurrently, state never
\* returns HalfOpen unless the timeout has elapsed since the most recent
\* record_failure: the failure that brings the count to the threshold is never
\* observed together with an older failure timestamp.
C38_HalfOpenOnlyAfterTimeout ==
    [][\A t \in Tasks :
        (a_pc[t] = "st_lock" /\ a_pc'[t] = "idle" /\ a_ret'[t] = "HalfOpen") =>
            (rf_last # Absent /\ elapsed(rf_last) > timeout)
      ]_vars


(***************************************************************************)
(* Claims about who changes a health record, under SpecServing.            *)
(***************************************************************************)
\* C39: the health counters of a provider (total_requests, failed_requests,
\* last_failure) change only for attempts in which its request function was
\* actually invoked; an attempt rejected by its open circuit leaves its health
\* record unchanged.
C39_HealthCountsInvocationsOnly ==
    [][\A p \in ProviderIds :
        (\/ health_metrics'[p].total_requests # health_metrics[p].total_requests
         \/ health_metrics'[p].failed_requests # health_metrics[p].failed_requests
         \/ health_metrics'[p].last_failure # health_metrics[p].last_failure)
            => \E t \in Tasks :
                /\ rpc[t] = "record" /\ rpc'[t] # "record" /\ selected[t] = p
                /\ call_result[t] \in {"Ok", "RequestFailed"}
      ]_vars


====
